---- MODULE Spec2Model ----
(***************************************************************************)
(* A model of the usable-kanban browser client: the OAuth PKCE token       *)
(* lifecycle (UsableAuth), the postMessage tool bridge and the board       *)
(* synchronisation of KanbanBoard, and the content codec of UsableAPI.     *)
(*                                                                         *)
(* JavaScript runs one task at a time: every action below is one task of   *)
(* the event loop, i.e. a handler from its start to its first await on a   *)
(* network response, or the continuation that runs when the response       *)
(* arrives, up to the next such await.                                     *)
(***************************************************************************)
EXTENDS Integers, Sequences, FiniteSets, TLC

\* ----------------------------------------------------------------- bounds
\* HTTP requests (fetch calls) issued in one behaviour
MaxFetch == 3
\* page loads (navigations to the app) in one behaviour
MaxNav == 2
\* postMessage events delivered to the window listener in one behaviour
MaxMessages == 2
\* times the chat panel is opened in one page
MaxOpens == 2

\* -------------------------------------------------------------- constants
\* JavaScript null / undefined for string-valued slots
Null == "null"
\* setTimeout handles are positive integers; 0 stands for a null handle
NoTimer == 0

AllowedOrigin == "https://chat.usable.dev"
Origins == {AllowedOrigin, "https://elsewhere.example"}

RefreshTokenKey == "usable_refresh_token"
VerifierKey == "usable_pkce_verifier"
LocalKeys == {RefreshTokenKey}
SessionKeys == {VerifierKey}

\* values the identity provider may hand out
AccessTokens == {"at1", "at2"}
RefreshTokens == {"rt2"}
\* expires_in of a token response: absent (Null is modelled as 0) or seconds
ExpiresIn == {0, 35}
\* the verifier generateCodeVerifier() draws
Verifiers == {"v1"}

TokenResponses ==
  [access_token : AccessTokens,
   refresh_token : RefreshTokens \cup {Null},
   expires_in : ExpiresIn]

VARIABLES
  page,            \* "app": loaded; "leaving": a redirect has begun; "idp": away
  urlCode,         \* the location bar carries ?code=...
  initPc,          \* where KanbanBoard.init() is suspended
  auth,            \* the UsableAuth object: _accessToken, _refreshToken, _refreshTimer
  timers,          \* the browser's pending setTimeout entries
  timerSeq,        \* last timer handle handed out by setTimeout
  localStorage,
  sessionStorage,
  refreshes,       \* refreshToken() calls suspended on fetch('/auth/token')
  loads,           \* loadTodos() calls suspended on UsableAPI.getTodos()
  board,           \* the KanbanBoard object and its DOM: todos, zones, drag state
  remote,          \* the fragments held by the remote store
  toolCalls,       \* the TOOL_CALL requests received, by requestId
  drops,           \* handleDrop() calls suspended on UsableAPI.updateTodo()
  outbox,          \* messages posted to the embedded frame, oldest first
  nreq,            \* number of fetch calls issued so far
  nnav,            \* number of page loads so far
  nmsg,            \* number of message events delivered so far
  lastEvent,       \* the task of the event loop that ran last
  intervals,       \* the browser's pending setInterval entries
  polls,           \* refreshSilently() calls suspended on UsableAPI.getTodos()
  calc             \* a function of the codec or of the allocator being applied

authVars == <<page, urlCode, initPc, auth, timers, timerSeq, localStorage,
              sessionStorage, refreshes>>
boardVars == <<loads, board, remote, toolCalls, drops>>
pollVars == <<intervals, polls>>
vars == <<authVars, boardVars, outbox, nreq, nnav, nmsg, lastEvent, pollVars, calc>>

Max(a, b) == IF a >= b THEN a ELSE b

\* ---------------------------------------------------------- UsableAuth
\* The state UsableAuth's methods read and write, as one value.
World ==
  [auth |-> auth, timers |-> timers, timerSeq |-> timerSeq,
   localStorage |-> localStorage, sessionStorage |-> sessionStorage]

SetWorld(w) ==
  /\ auth' = w.auth
  /\ timers' = w.timers
  /\ timerSeq' = w.timerSeq
  /\ localStorage' = w.localStorage
  /\ sessionStorage' = w.sessionStorage

InitialAuth == [accessToken |-> Null, refreshToken |-> Null, refreshTimer |-> NoTimer]

clearTimeout(ts, handle) == {t \in ts : t.id # handle}

\* mutant: the new timer is armed without cancelling the previous one
scheduleRefresh_NoCancel(w, expiresIn) ==
  LET delay == Max((expiresIn - 30) * 1000, 10000)
      id == w.timerSeq + 1
  IN [w EXCEPT !.timers = @ \cup {[id |-> id, delay |-> delay]},
               !.timerSeq = id,
               !.auth.refreshTimer = id]

scheduleRefresh(w, expiresIn) ==
  LET kept == IF w.auth.refreshTimer # NoTimer
                THEN clearTimeout(w.timers, w.auth.refreshTimer)
                ELSE w.timers
      delay == Max((expiresIn - 30) * 1000, 10000)
      id == w.timerSeq + 1
  IN [w EXCEPT !.timers = kept \cup {[id |-> id, delay |-> delay]},
               !.timerSeq = id,
               !.auth.refreshTimer = id]

\* mutant: the access token is persisted next to the refresh token
setTokens_PersistAccess(w, tokens) ==
  LET w1 == [w EXCEPT !.auth.accessToken = tokens.access_token,
                      !.auth.refreshToken = tokens.refresh_token,
                      !.localStorage[RefreshTokenKey] = tokens.access_token]
  IN scheduleRefresh(w1, IF tokens.expires_in # 0 THEN tokens.expires_in ELSE 300)

\* UsableAuth._setTokens
setTokens(w, tokens) ==
  LET w1 == [w EXCEPT !.auth.accessToken = tokens.access_token,
                      !.auth.refreshToken = tokens.refresh_token,
                      !.localStorage[RefreshTokenKey] =
                          IF tokens.refresh_token # Null
                            THEN tokens.refresh_token ELSE @]
  IN scheduleRefresh(w1, IF tokens.expires_in # 0 THEN tokens.expires_in ELSE 300)

\* mutant: logout forgets the pending timer
logout_KeepTimer(w) ==
  [w EXCEPT !.auth.accessToken = Null,
            !.auth.refreshToken = Null,
            !.localStorage[RefreshTokenKey] = Null]

\* UsableAuth.logout, up to the redirect
logout(w) ==
  [w EXCEPT !.auth.accessToken = Null,
            !.auth.refreshToken = Null,
            !.localStorage[RefreshTokenKey] = Null,
            !.timers = IF w.auth.refreshTimer # NoTimer
                         THEN clearTimeout(@, w.auth.refreshTimer) ELSE @,
            !.auth.refreshTimer = NoTimer]

getAccessToken(w) == w.auth.accessToken

isAuthenticated(w) == w.auth.accessToken # Null

\* the refresh token refreshToken() sends: rt = _refreshToken || localStorage
refreshTokenRt(w) ==
  IF w.auth.refreshToken # Null
    THEN w.auth.refreshToken
    ELSE w.localStorage[RefreshTokenKey]

\* UsableAuth.refreshToken from the arrival of the token endpoint's
\* response: resp.kind is "ok" (res.ok), "notok" (an HTTP error status) or
\* "throw" (fetch or res.json() rejected)
refreshTokenResponse(w, resp) ==
  CASE resp.kind = "ok" -> setTokens(w, resp.tokens)
    [] resp.kind = "notok" ->
         [w EXCEPT !.auth.accessToken = Null,
                   !.auth.refreshToken = Null,
                   !.localStorage[RefreshTokenKey] = Null]
    [] OTHER -> w

\* UsableAuth.handleCallback from the arrival of the code exchange's response
handleCallbackResponse(w, resp) ==
  CASE resp.kind = "ok" ->
         [setTokens(w, resp.tokens) EXCEPT !.sessionStorage[VerifierKey] = Null]
    [] OTHER -> w

Responses ==
  [kind : {"ok"}, tokens : TokenResponses]
    \cup {[kind |-> "notok"], [kind |-> "throw"]}

\* ------------------------------------------------------- embedded frame
\* mutant: the frame is not found and nothing is posted
postToEmbed_NoFrame(ob, message) == ob

\* KanbanBoard.postToEmbed: the frame that sends the inbound messages is the
\* iframe the page embeds, so its contentWindow exists while the page does
postToEmbed(ob, message) == Append(ob, message)

\* mutant: the token is posted whether or not one is held
sendAuthToEmbed_NoGuard(ob, w) ==
  postToEmbed(ob, [type |-> "AUTH", token |-> getAccessToken(w)])

\* KanbanBoard.sendAuthToEmbed
sendAuthToEmbed(ob, w) ==
  IF getAccessToken(w) = Null
    THEN ob
    ELSE postToEmbed(ob, [type |-> "AUTH", token |-> getAccessToken(w)])

\* ------------------------------------------------------------ UsableAPI
\* JavaScript strings that the codec reads are sequences of characters.
NL == "\n"
Whitespace == {" ", NL}
Delim == <<"-", "-", "-">>
StatusKey == <<"s", "t", "a", "t", "u", "s", ":">>
PriorityKey == <<"p", "r", "i", "o", "r", "i", "t", "y", ":">>

\* CONFIG.STATUSES, and the status deleteTodo's callers speak of
TODO == <<"t", "o", "d", "o">>
IN_PROGRESS == <<"i", "n", "-", "p", "r", "o", "g", "r", "e", "s", "s">>
DONE == <<"d", "o", "n", "e">>
DELETED == <<"d", "e", "l", "e", "t", "e", "d">>
Columns == <<TODO, IN_PROGRESS, DONE>>

\* CONFIG.PRIORITIES
LOW == <<"l", "o", "w">>
MEDIUM == <<"m", "e", "d", "i", "u", "m">>
HIGH == <<"h", "i", "g", "h">>

\* CONFIG.DEFAULT_TAGS: 'kloddin', 'todo'
DEFAULT_TAGS == <<<<"k", "l", "o", "d", "d", "i", "n">>, <<"t", "o", "d", "o">>>>

\* an absent (undefined) string-valued property of an object
Undefined == <<"undefined">>
Falsy(s) == s = Undefined \/ s = <<>>

StartsWithAt(s, pat, i) ==
  /\ i >= 1
  /\ i + Len(pat) - 1 <= Len(s)
  /\ SubSeq(s, i, i + Len(pat) - 1) = pat

\* least index >= from at which pat occurs in s, or 0
RECURSIVE IndexOf(_, _, _)
IndexOf(s, pat, from) ==
  IF from + Len(pat) - 1 > Len(s) THEN 0
  ELSE IF StartsWithAt(s, pat, from) THEN from
  ELSE IndexOf(s, pat, from + 1)

\* String.prototype.trim
RECURSIVE TrimLeft(_)
TrimLeft(s) ==
  IF s # <<>> /\ Head(s) \in Whitespace THEN TrimLeft(Tail(s)) ELSE s

RECURSIVE TrimRight(_)
TrimRight(s) ==
  IF s # <<>> /\ s[Len(s)] \in Whitespace
    THEN TrimRight(SubSeq(s, 1, Len(s) - 1)) ELSE s

Trim(s) == TrimRight(TrimLeft(s))

\* first index >= i whose character is not whitespace, or Len(s) + 1
RECURSIVE SkipWhitespace(_, _)
SkipWhitespace(s, i) ==
  IF i <= Len(s) /\ s[i] \in Whitespace THEN SkipWhitespace(s, i + 1) ELSE i

\* first index >= i holding a line terminator, or Len(s) + 1
RECURSIVE EndOfLine(_, _)
EndOfLine(s, i) ==
  IF i <= Len(s) /\ s[i] # NL THEN EndOfLine(s, i + 1) ELSE i

\* The capture of /key\s*(.+)/ on fm, searched from index from on: the
\* result is <<TRUE, capture>> or <<FALSE, <<>>>>.  \s* is greedy and gives
\* characters back when (.+) finds nothing after the whitespace run.
RECURSIVE MatchKey(_, _, _)

\* the line that starts at index i
LineFrom(fm, i) == SubSeq(fm, i, EndOfLine(fm, i) - 1)

\* the key stands at p and the whitespace after it runs to the end of fm:
\* back holds the places of that run that (.+) can start at
MatchKeyBackOff(fm, key, p, back) ==
  IF back # {}
    THEN <<TRUE, LineFrom(fm, CHOOSE x \in back : \A y \in back : y <= x)>>
    ELSE MatchKey(fm, key, p + 1)

\* the key stands at p and the whitespace after it ends before e
MatchKeyCapture(fm, key, p, e) ==
  IF e <= Len(fm)
    THEN <<TRUE, LineFrom(fm, e)>>
    ELSE MatchKeyBackOff(fm, key, p, {j \in (p + Len(key))..Len(fm) : fm[j] # NL})

MatchKeyAt(fm, key, p) ==
  IF p = 0 THEN <<FALSE, <<>>>>
  ELSE MatchKeyCapture(fm, key, p, SkipWhitespace(fm, p + Len(key)))

MatchKey(fm, key, from) == MatchKeyAt(fm, key, IndexOf(fm, key, from))

\* the result object parseContent starts from
DefaultParse == [status |-> TODO, priority |-> MEDIUM, body |-> <<>>]

FrontmatterOpen == Delim \o <<NL>>
FrontmatterClose == <<NL>> \o Delim

\* /^---\n([\s\S]*?)\n---\n?([\s\S]*)$/: the index of the closing delimiter
\* the lazy group stops at, or 0 when the content does not match
FrontmatterEnd(content) ==
  IF StartsWithAt(content, FrontmatterOpen, 1)
    THEN IndexOf(content, FrontmatterClose, Len(FrontmatterOpen) + 1)
    ELSE 0

\* the second group: what follows the closing delimiter and one optional \n
BodyFrom(content, after) ==
  IF after <= Len(content) /\ content[after] = NL
    THEN SubSeq(content, after + 1, Len(content))
    ELSE SubSeq(content, after, Len(content))

\* match[1].trim() when the key matched, else the default
TrimmedCapture(match, default) == IF match[1] THEN Trim(match[2]) ELSE default

ParseFrontmatter(frontmatter, rest) ==
  [status |-> TrimmedCapture(MatchKey(frontmatter, StatusKey, 1), DefaultParse.status),
   priority |-> TrimmedCapture(MatchKey(frontmatter, PriorityKey, 1), DefaultParse.priority),
   body |-> Trim(rest)]

\* parseContent once the frontmatter regex has been tried: k is the index
\* of the closing delimiter, or 0
ParseMatch(content, k) ==
  IF k = 0
    THEN [DefaultParse EXCEPT !.body = content]
    ELSE ParseFrontmatter(SubSeq(content, Len(FrontmatterOpen) + 1, k - 1),
                          BodyFrom(content, k + Len(FrontmatterClose)))

\* UsableAPI.parseContent
parseContent(content) ==
  IF Falsy(content) THEN DefaultParse ELSE ParseMatch(content, FrontmatterEnd(content))

\* UsableAPI.buildContent: the header carries status and priority only
buildContent(todo) ==
  LET frontmatter ==
        Delim \o <<NL>>
          \o StatusKey \o <<" ">> \o (IF Falsy(todo.status) THEN TODO ELSE todo.status)
          \o <<NL>>
          \o PriorityKey \o <<" ">> \o (IF Falsy(todo.priority) THEN MEDIUM ELSE todo.priority)
          \o <<NL>> \o Delim
      body == IF Falsy(todo.content) THEN <<>> ELSE todo.content
  IN frontmatter \o <<NL, NL>> \o body

\* 'A'..'Z' to lower case, for the letters the model's tags use
ToLowerCase(s) ==
  [i \in 1..Len(s) |-> CASE s[i] = "U" -> "u" [] s[i] = "I" -> "i" [] OTHER -> s[i]]

\* String.prototype.split(','): s as the sequence of its comma-separated parts
RECURSIVE Split(_)
Split(s) ==
  LET k == IndexOf(s, <<",">>, 1)
  IN IF k = 0 THEN <<s>>
     ELSE <<SubSeq(s, 1, k - 1)>> \o Split(SubSeq(s, k + 1, Len(s)))

\* the elements of s in order, each kept at its first occurrence (new Set)
RECURSIVE Dedupe(_)
Dedupe(s) ==
  IF s = <<>> THEN <<>>
  ELSE LET init == Dedupe(SubSeq(s, 1, Len(s) - 1))
       IN IF \E i \in 1..Len(init) : init[i] = s[Len(s)]
            THEN init ELSE Append(init, s[Len(s)])

RECURSIVE NonEmpty(_)
NonEmpty(s) ==
  IF s = <<>> THEN <<>>
  ELSE (IF Head(s) = <<>> THEN <<>> ELSE <<Head(s)>>) \o NonEmpty(Tail(s))

\* mutant: the defaults are put before the tags without the Set
buildTags_NoSet(tags) ==
  LET raw == CASE tags.type = "string" -> Split(tags.value)
               [] tags.type = "array" -> tags.items
               [] OTHER -> <<>>
      tagArray == NonEmpty([i \in 1..Len(raw) |-> ToLowerCase(Trim(raw[i]))])
  IN DEFAULT_TAGS \o tagArray

\* UsableAPI.buildTags: tags is [type |-> "string", value |-> characters],
\* [type |-> "array", items |-> strings] or [type |-> "undefined"]
buildTags(tags) ==
  LET raw == CASE tags.type = "string" -> Split(tags.value)
               [] tags.type = "array" -> tags.items
               [] OTHER -> <<>>
      tagArray == NonEmpty([i \in 1..Len(raw) |-> ToLowerCase(Trim(raw[i]))])
  IN Dedupe(DEFAULT_TAGS \o tagArray)

\* an array of tags as the argument of buildTags
ArrayTags(items) == [type |-> "array", items |-> items]

\* the body of the POST of UsableAPI.createTodo
createTodo(todo) ==
  [op |-> "create", id |-> Null,
   title |-> todo.title,
   summary |-> IF todo.summary = Null THEN "" ELSE todo.summary,
   content |-> buildContent(todo),
   tags |-> buildTags(todo.tags)]

\* the body of the PATCH of UsableAPI.updateTodo
updateTodo(id, todo) ==
  [op |-> "update", id |-> id,
   title |-> todo.title,
   summary |-> IF todo.summary = Null THEN "" ELSE todo.summary,
   content |-> buildContent(todo),
   tags |-> buildTags(todo.tags)]

\* UsableAPI.deleteTodo: a DELETE of the fragment; the second argument its
\* callers pass is ignored
deleteTodo(id, todo) ==
  [op |-> "delete", id |-> id, title |-> Null, summary |-> "",
   content |-> <<>>, tags |-> <<>>]

\* ---------------------------------------------------------- KanbanBoard
\* A card is a DOM node created by createCard; it is named by the render
\* that created it and the task it shows.  NoCard is a null reference.
NoCard == <<-1, "none">>
\* parsed.sort of a card's data when parseContent returned no sort property
UndefinedSort == -1

ColumnIndex(status) ==
  IF \E c \in 1..Len(Columns) : Columns[c] = status
    THEN CHOOSE c \in 1..Len(Columns) : Columns[c] = status
    ELSE 0

SeqRange(s) == {s[i] : i \in 1..Len(s)}

RECURSIVE SelectSeq2(_, _)
\* Array.prototype.filter with a set-valued test
SelectSeq2(s, keep) ==
  IF s = <<>> THEN <<>>
  ELSE (IF Head(s) \in keep THEN <<Head(s)>> ELSE <<>>) \o SelectSeq2(Tail(s), keep)

\* index of the first element of s equal to x, or 0 (Array.prototype.indexOf)
PositionOf(s, x) ==
  IF \E i \in 1..Len(s) : s[i] = x
    THEN CHOOSE i \in 1..Len(s) : s[i] = x /\ \A j \in 1..(i - 1) : s[j] # x
    ELSE 0

InsertAt(s, i, x) == SubSeq(s, 1, i - 1) \o <<x>> \o SubSeq(s, i, Len(s))

\* the task of the cache with this id (Array.prototype.find), or <<>>
FindTodo(todos, id) ==
  LET hits == {i \in 1..Len(todos) : todos[i].id = id}
  IN IF hits = {} THEN <<>>
     ELSE <<todos[CHOOSE i \in hits : \A j \in hits : i <= j]>>

\* Array.prototype.sort with the comparator of renderBoard: a stable sort,
\* ascending by (parsed.sort || 0)
SortKey(data) == IF data.parsed.sort = UndefinedSort THEN 0 ELSE data.parsed.sort

RECURSIVE InsertSorted(_, _)
InsertSorted(sorted, x) ==
  IF sorted = <<>> THEN <<x>>
  ELSE IF x.key < Head(sorted).key
    THEN <<x>> \o sorted
    ELSE <<Head(sorted)>> \o InsertSorted(Tail(sorted), x)

\* s is a sequence of [key, val] records
RECURSIVE StableSort(_)
StableSort(s) ==
  IF s = <<>> THEN <<>>
  ELSE InsertSorted(StableSort(SubSeq(s, 1, Len(s) - 1)), s[Len(s)])

\* the column renderBoard puts a task in: 0 when the task is skipped
RenderColumn(parsed) ==
  LET status == IF Falsy(parsed.status) THEN TODO ELSE parsed.status
  IN IF status = DELETED THEN 0
     ELSE IF ColumnIndex(status) # 0 THEN ColumnIndex(status)
     ELSE ColumnIndex(TODO)

\* { ...t, parsed: UsableAPI.parseContent(t.content) } and the column
ParsedEntry(todo, parsed) ==
  [todo |-> todo, parsed |-> parsed, col |-> RenderColumn(parsed)]

\* every cached task with its parse, in cache order
ParseAll(todos) ==
  [i \in 1..Len(todos) |-> ParsedEntry(todos[i], parseContent(todos[i].content))]

\* the entries that are not deleted
LiveEntries(entries) ==
  SelectSeq2(entries, {e \in SeqRange(entries) : e.parsed.status # DELETED})

\* the entries of this status
ByStatus(entries, status) ==
  SelectSeq2(entries, {e \in SeqRange(entries) : e.parsed.status = status})

\* the data object createCard closes over: { ...todo, parsed }
CardData(todo, parsed) ==
  [id |-> todo.id, title |-> todo.title, summary |-> todo.summary,
   tags |-> todo.tags,
   parsed |-> [status |-> parsed.status, priority |-> parsed.priority,
               body |-> parsed.body, sort |-> UndefinedSort]]

\* the cards of a zone that match '.card:not(.card--dragging)': the class is
\* on the dragged card from dragstart to dragend
NotDragging(b, z) == SelectSeq2(b.zones[z], SeqRange(b.zones[z]) \ {b.dragging})

\* The cards of one render are named by that render and their task's id
\* (the store keeps ids unique); a render names its cards apart from a card
\* that is being dragged meanwhile.
RenderGen(b) == IF b.draggedCard # NoCard /\ b.draggedCard[1] = 0 THEN 1 ELSE 0

\* the cards createCard makes for the entries of one render
FreshCards(gen, entries) ==
  [nd \in {<<gen, e.todo.id>> : e \in {x \in SeqRange(entries) : x.col # 0}} |->
     LET e == CHOOSE x \in SeqRange(entries) : x.col # 0 /\ x.todo.id = nd[2]
     IN CardData(e.todo, e.parsed)]

\* the cards a handler still refers to although the render detached them
HeldCards(b, fresh) ==
  [nd \in {b.draggedCard, b.draggedCardData, b.dragging} \ ({NoCard} \cup DOMAIN fresh) |->
     b.cards[nd]]

\* the cards of one column in the order renderBoard appends them
RenderZone(gen, group) ==
  LET sorted == StableSort([k \in 1..Len(group) |->
                   [key |-> SortKey(CardData(group[k].todo, group[k].parsed)),
                    val |-> <<gen, group[k].todo.id>>]])
  IN [k \in 1..Len(sorted) |-> sorted[k].val]

RenderEntries(b, gen, entries, fresh) ==
  [b EXCEPT !.cards = fresh @@ HeldCards(b, fresh),
            !.zones = [c \in 1..Len(Columns) |->
                         RenderZone(gen, SelectSeq2(entries,
                           {e \in SeqRange(entries) : e.col = c}))],
            !.indicator = [zone |-> 0, index |-> 0],
            !.counts = [c \in 1..Len(Columns) |->
                          Cardinality({k \in 1..Len(entries) : entries[k].col = c})],
            !.taskCount = Len(b.todos)]

RenderParsed(b, gen, entries) ==
  RenderEntries(b, gen, entries, FreshCards(gen, entries))

\* KanbanBoard.renderBoard
renderBoard(b) == RenderParsed(b, RenderGen(b), ParseAll(b.todos))

\* KanbanBoard.showToast
showToast(b, message, type) == [b EXCEPT !.toast = [message |-> message, type |-> type]]

\* the KanbanBoard the constructor builds
InitialBoard ==
  [todos |-> <<>>,
   cards |-> [n \in {} |-> 0],
   zones |-> [c \in 1..Len(Columns) |-> <<>>],
   draggedCard |-> NoCard,
   draggedCardData |-> NoCard,
   dragging |-> NoCard,
   indicator |-> [zone |-> 0, index |-> 0],
   counts |-> [c \in 1..Len(Columns) |-> 0],
   taskCount |-> 0,
   toast |-> [message |-> "", type |-> ""],
   chatOpen |-> FALSE,
   chatPollInterval |-> NoTimer]

\* mutant: a failed load empties the cache
loadTodosResponse_ClearOnFail(b, resp) ==
  IF resp.kind = "ok"
    THEN showToast(renderBoard([b EXCEPT !.todos = resp.fragments]),
                   "Tasks loaded", "success")
    ELSE showToast(renderBoard([b EXCEPT !.todos = <<>>]),
                   "Failed to load tasks", "error")

\* KanbanBoard.loadTodos from the arrival of getTodos' response: resp.kind
\* is "ok" with the list of fragments, or "fail" (request() threw)
loadTodosResponse(b, resp) ==
  IF resp.kind = "ok"
    THEN showToast(renderBoard([b EXCEPT !.todos = resp.fragments]),
                   "Tasks loaded", "success")
    ELSE showToast(b, "Failed to load tasks", "error")

\* the list_tasks ... delete_task catalog of getChatToolDefinitions
ToolNames ==
  {"list_tasks", "get_task", "create_task", "update_task", "move_task", "delete_task"}

\* the ids of the tasks of these entries, in order
EntryIds(entries) == [k \in 1..Len(entries) |-> entries[k].todo.id]

\* the text of getBoardContext, by what it states of the live entries: the
\* total and, per column, the tasks listed
BoardContext(live) ==
  [total |-> Len(live),
   counts |-> [c \in 1..Len(Columns) |-> Len(ByStatus(live, Columns[c]))],
   listed |-> [c \in 1..Len(Columns) |-> EntryIds(ByStatus(live, Columns[c]))]]

\* KanbanBoard.getBoardContext
getBoardContext(b) == BoardContext(LiveEntries(ParseAll(b.todos)))

\* KanbanBoard.registerChatTools
registerChatTools(ob, b) ==
  postToEmbed(
    postToEmbed(ob, [type |-> "REGISTER_TOOLS", tools |-> ToolNames]),
    [type |-> "ADD_CONTEXT", workspace |-> TRUE, text |-> getBoardContext(b)])

\* KanbanBoard.sendBoardContext
sendBoardContext(ob, b) ==
  postToEmbed(ob, [type |-> "ADD_CONTEXT", workspace |-> FALSE,
                   text |-> getBoardContext(b)])

\* ------------------------------------------------------- remote store
\* a fragment as the store returns it
Fragment(id, title, status, priority, body, tags) ==
  [id |-> id, title |-> title, summary |-> title,
   content |-> buildContent([status |-> status, priority |-> priority,
                             content |-> body]),
   tags |-> DEFAULT_TAGS \o tags]

\* the boards a session may start from: two tasks to do and, between
\* them, a task whose stored status is deleted
InitialRemotes ==
  { <<Fragment("A", "Alpha", TODO, MEDIUM, <<"x">>, <<>>),
      Fragment("D", "Omega", DELETED, LOW, <<>>, <<>>),
      Fragment("B", "Beta", TODO, HIGH, <<>>, <<<<"u", "i">>>>)>> }

\* ----------------------------------------------------------- page load
\* mutant: init() goes on to loadTodos() without calling tryRestore()
Boot_SkipRestore(ls, ss, code, req) ==
  LET verifier == ss[VerifierKey]
  IN IF code /\ verifier # Null
       THEN [initPc |-> "handleCallback", auth |-> InitialAuth,
             refreshes |-> {}, loads |-> {}]
     ELSE [initPc |-> "done", auth |-> InitialAuth,
           refreshes |-> {}, loads |-> {[req |-> req, call |-> 0, after |-> "init"]}]

\* The state of a freshly loaded document after the constructor and the
\* synchronous prefix of KanbanBoard.init(): handleCallback() up to its
\* fetch, else tryRestore() up to refreshToken()'s fetch, else the tail of
\* init() up to loadTodos()'s fetch.  req is the number of the fetch issued.
Boot(ls, ss, code, req) ==
  LET verifier == ss[VerifierKey]
      rt == ls[RefreshTokenKey]
  IN IF code /\ verifier # Null
       THEN [initPc |-> "handleCallback", auth |-> InitialAuth,
             refreshes |-> {}, loads |-> {}]
     ELSE IF rt # Null
       THEN [initPc |-> "tryRestore",
             auth |-> [InitialAuth EXCEPT !.refreshToken = rt],
             refreshes |-> {[req |-> req, caller |-> "tryRestore"]},
             loads |-> {}]
     ELSE [initPc |-> "done", auth |-> InitialAuth,
           refreshes |-> {}, loads |-> {[req |-> req, call |-> 0, after |-> "init"]}]

\* the document of the first page load
PageInit ==
  /\ page = "app"
  /\ urlCode = FALSE
  /\ sessionStorage = [k \in SessionKeys |-> Null]
  /\ localStorage \in [LocalKeys -> {Null, "rt1"}]
  /\ LET boot == Boot(localStorage, sessionStorage, urlCode, 1)
     IN /\ initPc = boot.initPc
        /\ auth = boot.auth
        /\ refreshes = boot.refreshes
        /\ loads = boot.loads
  /\ timers = {}
  /\ timerSeq = 0
  /\ board = InitialBoard
  /\ remote \in InitialRemotes
  /\ toolCalls = <<>>
  /\ drops = {}
  /\ outbox = <<>>
  /\ nreq = 1
  /\ nnav = 1
  /\ nmsg = 0
  /\ lastEvent = [kind |-> "load"]
  /\ intervals = {}
  /\ polls = {}

\* no function of the codec or of the allocator is being applied
Idle == [op |-> "idle"]

Init == PageInit /\ calc = Idle

\* a navigation to the app: a reload, or the return from the identity
\* provider, with or without an authorization code in the URL
PageLoad(code) ==
  /\ page \in {"app", "idp"}
  /\ page = "app" => code = urlCode
  /\ nnav < MaxNav
  /\ nreq < MaxFetch
  /\ LET boot == Boot(localStorage, sessionStorage, code, nreq + 1)
     IN /\ initPc' = boot.initPc
        /\ auth' = boot.auth
        /\ refreshes' = boot.refreshes
        /\ loads' = boot.loads
  /\ page' = "app"
  /\ urlCode' = code
  /\ timers' = {}
  /\ timerSeq' = 0
  /\ board' = InitialBoard
  /\ toolCalls' = <<>>
  /\ drops' = {}
  /\ outbox' = <<>>
  /\ nreq' = nreq + 1
  /\ nnav' = nnav + 1
  /\ lastEvent' = [kind |-> "load"]
  /\ intervals' = {}
  /\ polls' = {}
  /\ UNCHANGED <<localStorage, sessionStorage, remote, nmsg, calc>>

\* the document is torn down when the redirect commits
Unload ==
  /\ page = "leaving"
  /\ page' = "idp"
  /\ auth' = InitialAuth
  /\ timers' = {}
  /\ timerSeq' = 0
  /\ refreshes' = {}
  /\ loads' = {}
  /\ board' = InitialBoard
  /\ toolCalls' = <<>>
  /\ drops' = {}
  /\ outbox' = <<>>
  /\ initPc' = "done"
  /\ lastEvent' = [kind |-> "unload"]
  /\ intervals' = {}
  /\ polls' = {}
  /\ UNCHANGED <<urlCode, localStorage, sessionStorage, remote, nreq, nnav, nmsg, calc>>

\* the tail of KanbanBoard.init(): updateAuthUI, sendAuthToEmbed when
\* authenticated, loadTodos() up to its fetch
InitTail(w) ==
  /\ outbox' = IF isAuthenticated(w) THEN sendAuthToEmbed(outbox, w) ELSE outbox
  /\ loads' = loads \cup {[req |-> nreq + 1, call |-> 0, after |-> "init"]}
  /\ initPc' = "done"

\* the login button: UsableAuth.login
Login ==
  /\ page = "app"
  /\ \E v \in Verifiers :
       sessionStorage' = [sessionStorage EXCEPT ![VerifierKey] = v]
  /\ page' = "leaving"
  /\ lastEvent' = [kind |-> "login"]
  /\ UNCHANGED <<urlCode, initPc, auth, timers, timerSeq, localStorage, refreshes,
                 boardVars, outbox, nreq, nnav, nmsg, pollVars, calc>>

\* the logout button: UsableAuth.logout
Logout ==
  /\ page = "app"
  /\ SetWorld(logout(World))
  /\ page' = "leaving"
  /\ lastEvent' = [kind |-> "logout", pending |-> timers # {}]
  /\ UNCHANGED <<urlCode, initPc, refreshes, boardVars, outbox, nreq, nnav, nmsg, pollVars, calc>>

\* init() resumes when the code exchange of handleCallback() is answered
HandleCallbackResponse(resp) ==
  /\ page = "app"
  /\ initPc = "handleCallback"
  /\ nreq < MaxFetch
  /\ LET w == handleCallbackResponse(World, resp)
         rt == w.localStorage[RefreshTokenKey]
     IN IF resp.kind = "ok"
          THEN /\ SetWorld(w)
               /\ urlCode' = FALSE
               /\ InitTail(w)
               /\ UNCHANGED refreshes
        ELSE IF rt # Null
          THEN /\ SetWorld([w EXCEPT !.auth.refreshToken = rt])
               /\ refreshes' = refreshes \cup {[req |-> nreq + 1, caller |-> "tryRestore"]}
               /\ initPc' = "tryRestore"
               /\ UNCHANGED <<urlCode, loads, outbox>>
        ELSE /\ SetWorld(w)
             /\ InitTail(w)
             /\ UNCHANGED <<urlCode, refreshes>>
  /\ nreq' = nreq + 1
  /\ lastEvent' = [kind |-> "handleCallback", resp |-> resp.kind]
  /\ UNCHANGED <<page, board, remote, toolCalls, drops, nnav, nmsg, pollVars, calc>>

\* a refreshToken() call resumes when the token endpoint answers, and its
\* caller runs on: init() after tryRestore(), the message listener after
\* REQUEST_TOKEN_REFRESH, nothing after the timer callback
RefreshResponse(r, resp) ==
  /\ page = "app"
  /\ r \in refreshes
  /\ refreshes' = refreshes \ {r}
  /\ LET w == refreshTokenResponse(World, resp)
     IN /\ SetWorld(w)
        /\ CASE r.caller = "tryRestore" ->
                  /\ nreq < MaxFetch
                  /\ InitTail(w)
                  /\ nreq' = nreq + 1
             [] r.caller = "message" ->
                  /\ outbox' = sendAuthToEmbed(outbox, w)
                  /\ UNCHANGED <<loads, initPc, nreq>>
             [] OTHER -> UNCHANGED <<loads, initPc, nreq, outbox>>
  /\ lastEvent' = [kind |-> "refreshToken", resp |-> resp.kind, caller |-> r.caller]
  /\ UNCHANGED <<page, urlCode, board, remote, toolCalls, drops, nnav, nmsg, pollVars, calc>>

\* mutant: the callback is armed with setInterval and stays pending
TimerFire_Repeating(t) ==
  /\ page = "app"
  /\ t \in timers
  /\ timers' = timers
  /\ IF refreshTokenRt(World) = Null
       THEN UNCHANGED <<refreshes, nreq>>
       ELSE /\ nreq < MaxFetch
            /\ refreshes' = refreshes \cup {[req |-> nreq + 1, caller |-> "timer"]}
            /\ nreq' = nreq + 1
  /\ lastEvent' = [kind |-> "timer", id |-> t.id]
  /\ UNCHANGED <<page, urlCode, initPc, auth, timerSeq, localStorage, sessionStorage,
                 boardVars, outbox, nnav, nmsg, pollVars, calc>>

\* the refresh timer fires: the callback calls refreshToken(), which
\* returns at once when no refresh token is held
TimerFire(t) ==
  /\ page = "app"
  /\ t \in timers
  /\ timers' = timers \ {t}
  /\ IF refreshTokenRt(World) = Null
       THEN UNCHANGED <<refreshes, nreq>>
       ELSE /\ nreq < MaxFetch
            /\ refreshes' = refreshes \cup {[req |-> nreq + 1, caller |-> "timer"]}
            /\ nreq' = nreq + 1
  /\ lastEvent' = [kind |-> "timer", id |-> t.id]
  /\ UNCHANGED <<page, urlCode, initPc, auth, timerSeq, localStorage, sessionStorage,
                 boardVars, outbox, nnav, nmsg, pollVars, calc>>

\* a loadTodos() call resumes when getTodos() is answered
LoadResponse(l, ok) ==
  /\ page = "app"
  /\ l \in loads
  /\ l.call = 0
  /\ loads' = loads \ {l}
  /\ board' = loadTodosResponse(board,
                 IF ok THEN [kind |-> "ok", fragments |-> remote]
                       ELSE [kind |-> "fail"])
  /\ lastEvent' = [kind |-> "loadTodos", ok |-> ok, after |-> l.after]
  /\ UNCHANGED <<authVars, remote, toolCalls, drops, outbox, nreq, nnav, nmsg, pollVars, calc>>

\* ------------------------------------------------------- remote store
\* whether the store can answer the request with success
CanServe(store, request) ==
  request.op = "create" \/ \E i \in 1..Len(store) : store[i].id = request.id

\* the store after serving the request; newId names a created fragment
Serve(store, request, newId) ==
  CASE request.op = "create" ->
         Append(store, [id |-> newId, title |-> request.title,
                        summary |-> request.summary, content |-> request.content,
                        tags |-> request.tags])
    [] request.op = "update" ->
         [i \in 1..Len(store) |->
            IF store[i].id = request.id
              THEN [store[i] EXCEPT !.title = request.title,
                                    !.summary = request.summary,
                                    !.content = request.content,
                                    !.tags = request.tags]
              ELSE store[i]]
    [] OTHER -> SelectSeq2(store, {f \in SeqRange(store) : f.id # request.id})

NewId(req) == "N" \o ToString(req)

\* -------------------------------------------------------- drag and drop
\* values of Date.now() at a drop
ClockValues == {1000, 1001}

\* KanbanBoard.handleDragStart
handleDragStart(b, card) ==
  [b EXCEPT !.draggedCard = card, !.draggedCardData = card, !.dragging = card]

\* KanbanBoard.hideDropIndicator
hideDropIndicator(b) == [b EXCEPT !.indicator = [zone |-> 0, index |-> 0]]

\* KanbanBoard.handleDragEnd
handleDragEnd(b) ==
  [hideDropIndicator(b) EXCEPT !.dragging = NoCard,
                               !.draggedCard = NoCard,
                               !.draggedCardData = NoCard]

\* KanbanBoard.positionDropIndicator: index is the number of cards of the
\* zone, the dragged one apart, whose middle lies above the mouse
positionDropIndicator(b, z, index) ==
  [b EXCEPT !.indicator = [zone |-> z, index |-> index]]

\* the sort property of a parseContent result: the result has none
ParsedSort(parsed) == UndefinedSort

\* KanbanBoard.getCardSort
getCardSort(b, id) ==
  LET found == FindTodo(b.todos, id)
      sort == ParsedSort(parseContent(found[1].content))
  IN IF found # <<>> /\ sort # UndefinedSort THEN sort ELSE 0

\* Math.floor((prevSort + nextSort) / 2) over the cards of the zone, the
\* dragged one apart; index counts from 0
SortBetween(b, cards, index, now) ==
  ((IF index >= 1 /\ index <= Len(cards)
      THEN getCardSort(b, cards[index][2]) ELSE 0)
   + (IF index + 1 <= Len(cards)
        THEN getCardSort(b, cards[index + 1][2]) ELSE now)) \div 2

\* KanbanBoard.calculateSortValue
calculateSortValue(b, z, index, now) == SortBetween(b, NotDragging(b, z), index, now)

\* the zones once card is inserted at place at of zone z
InsertCard(zones, z, at, card) == [zones EXCEPT ![z] = InsertAt(@, at, card)]

\* the zones without the card (Element.remove)
RemoveCard(zones, card) ==
  [c \in 1..Len(Columns) |-> SelectSeq2(zones[c], SeqRange(zones[c]) \ {card})]

\* the place of the zone the card is put at: before cards[dropIndex] when
\* there is one, else at the end
DropPlace(zone, cards, dropIndex) ==
  IF dropIndex + 1 <= Len(cards)
    THEN PositionOf(zone, cards[dropIndex + 1])
    ELSE Len(zone) + 1

\* the optimistic UI update of handleDrop
MoveCard(b, z, cards, dropIndex) ==
  IF b.draggedCard = NoCard THEN b
  ELSE [b EXCEPT !.zones =
          InsertCard(RemoveCard(b.zones, b.draggedCard), z,
                     DropPlace(RemoveCard(b.zones, b.draggedCard)[z], cards, dropIndex),
                     b.draggedCard)]

\* the index handleDrop derives from the place of the indicator
DropIndex(b, z) ==
  IF b.indicator.zone = z THEN b.indicator.index ELSE Len(NotDragging(b, z))

\* the updateTodo call of handleDrop
DropRequest(data, newStatus) ==
  updateTodo(data.id,
    [title |-> data.title, summary |-> data.summary,
     status |-> newStatus, priority |-> data.parsed.priority,
     content |-> data.parsed.body,
     tags |-> ArrayTags(data.tags)])

\* handleDrop from the change test on: the board it leaves, whether
\* updateTodo is called, and what the call and the closure hold
DropChange(b, z, data, cards, dropIndex, newSort) ==
  IF Columns[z] = data.parsed.status /\ newSort = data.parsed.sort
    THEN [board |-> hideDropIndicator(b), calls |-> FALSE]
    ELSE [board |-> MoveCard(hideDropIndicator(b), z, cards, dropIndex),
          calls |-> TRUE,
          request |-> DropRequest(data, Columns[z]),
          newStatus |-> Columns[z], newSort |-> newSort]

DropAt(b, z, now, dropIndex) ==
  DropChange(b, z, b.cards[b.draggedCardData], NotDragging(b, z), dropIndex,
             calculateSortValue(hideDropIndicator(b), z, dropIndex, now))

\* KanbanBoard.handleDrop up to its await
handleDropStart(b, z, now) == DropAt(b, z, now, DropIndex(b, z))

\* KanbanBoard.updateCounts: the cards each zone holds
updateCounts(b) == [b EXCEPT !.counts = [c \in 1..Len(Columns) |-> Len(b.zones[c])]]

\* dragstart on a card of the board
DragStart(card) ==
  /\ page = "app"
  /\ board.dragging = NoCard
  /\ \E z \in 1..Len(Columns) : card \in SeqRange(board.zones[z])
  /\ board' = handleDragStart(board, card)
  /\ lastEvent' = [kind |-> "dragstart", card |-> card]
  /\ UNCHANGED <<authVars, loads, remote, toolCalls, drops, outbox, nreq, nnav, nmsg, pollVars, calc>>

\* dragover on a zone while a card is dragged
DragOver(z, index) ==
  /\ page = "app"
  /\ board.dragging # NoCard
  /\ board.draggedCard # NoCard
  /\ index \in 0..Len(NotDragging(board, z))
  /\ board' = positionDropIndicator(board, z, index)
  /\ lastEvent' = [kind |-> "dragover", zone |-> z, index |-> index]
  /\ UNCHANGED <<authVars, loads, remote, toolCalls, drops, outbox, nreq, nnav, nmsg, pollVars, calc>>

\* the dragged card lies in this zone and the indicator stands in its place
OwnSlot(b, z) ==
  /\ b.draggedCard \in SeqRange(b.zones[z])
  /\ b.cards[b.draggedCardData].parsed.status = Columns[z]
  /\ b.indicator.zone = z
  /\ b.indicator.index = PositionOf(b.zones[z], b.draggedCard) - 1

\* the mouse is released over the zone last dragged over: the drop event
\* runs handleDrop up to its await, then the dragend event handleDragEnd
Drop(z, now) ==
  /\ page = "app"
  /\ board.dragging # NoCard
  /\ board.draggedCardData # NoCard
  /\ board.indicator.zone = z
  /\ LET next == handleDropStart(board, z, now)
     IN /\ board' = handleDragEnd(next.board)
        /\ IF next.calls
             THEN /\ nreq < MaxFetch
                  /\ drops' = drops \cup {[req |-> nreq + 1, request |-> next.request,
                                           newStatus |-> next.newStatus,
                                           newSort |-> next.newSort]}
                  /\ nreq' = nreq + 1
             ELSE UNCHANGED <<drops, nreq>>
        /\ lastEvent' = [kind |-> "drop", ownSlot |-> OwnSlot(board, z),
                         calls |-> next.calls]
  /\ UNCHANGED <<authVars, loads, remote, toolCalls, outbox, nnav, nmsg, pollVars, calc>>

\* the drag ends without a drop on a zone
DragCancel ==
  /\ page = "app"
  /\ board.dragging # NoCard
  /\ board' = handleDragEnd(board)
  /\ lastEvent' = [kind |-> "dragend"]
  /\ UNCHANGED <<authVars, loads, remote, toolCalls, drops, outbox, nreq, nnav, nmsg, pollVars, calc>>

\* mutant: the catch reports the failure and does not reload
handleDropCatch_NoReload(ls, req, ok) == ls

\* the catch of handleDrop, from its toast on: loadTodos() up to its fetch.
\* It is entered when updateTodo() rejected (ok is false) and when the
\* statements after a fulfilled updateTodo() threw.
handleDropCatch(ls, req, ok) ==
  ls \cup {[req |-> req, call |-> 0,
            after |-> IF ok THEN "updateThrew" ELSE "updateFailed"]}

\* handleDrop resumes when updateTodo() is answered.  On success it writes
\* to this.draggedCardData, which throws when no card is dragged by then;
\* its catch reloads the board.
DropResponse(d, ok) ==
  /\ page = "app"
  /\ d \in drops
  /\ drops' = drops \ {d}
  /\ ok => CanServe(remote, d.request)
  /\ remote' = IF ok THEN Serve(remote, d.request, NewId(d.req)) ELSE remote
  /\ IF ok /\ board.draggedCardData # NoCard
       THEN /\ board' = showToast(
                 updateCounts(
                   [board EXCEPT !.cards[board.draggedCardData].parsed.status = d.newStatus,
                                 !.cards[board.draggedCardData].parsed.sort = d.newSort]),
                 "Task moved", "success")
            /\ UNCHANGED <<loads, nreq>>
       ELSE /\ nreq < MaxFetch
            /\ board' = showToast(board, "Failed to move task", "error")
            /\ loads' = handleDropCatch(loads, nreq + 1, ok)
            /\ nreq' = nreq + 1
  /\ lastEvent' = [kind |-> "dropResponse", ok |-> ok]
  /\ UNCHANGED <<authVars, toolCalls, outbox, nnav, nmsg, pollVars, calc>>

\* ------------------------------------------------------------ tool bridge
\* the tags of a task without the default tags
UserTags(tags) == SelectSeq2(tags, SeqRange(tags) \ SeqRange(DEFAULT_TAGS))

\* what the embedded frame may send as input of a TOOL_CALL; an absent
\* property is Null (strings) or Undefined (texts and arrays)
NoInput ==
  [present |-> FALSE, id |-> Null, title |-> Null, status |-> Undefined,
   priority |-> Undefined, content |-> Undefined]

ToolInputs(tool) ==
  CASE tool = "list_tasks" ->
         {NoInput, [NoInput EXCEPT !.present = TRUE, !.status = TODO]}
    [] tool = "get_task" ->
         {NoInput} \cup {[NoInput EXCEPT !.present = TRUE, !.id = id] :
                            id \in {"A", "Z"}}
    [] tool = "delete_task" ->
         {[NoInput EXCEPT !.present = TRUE, !.id = "A"]}
    [] tool = "create_task" ->
         {[NoInput EXCEPT !.present = TRUE, !.title = "Gamma"]}
    [] tool = "update_task" ->
         {[NoInput EXCEPT !.present = TRUE, !.id = "A", !.title = "Delta",
                          !.priority = LOW]}
    [] tool = "move_task" ->
         {[NoInput EXCEPT !.present = TRUE, !.id = "B", !.status = DONE]}
    [] OTHER -> {NoInput}

Respond(result) == [kind |-> "respond", result |-> result]
Request(request, title) == [kind |-> "request", request |-> request, title |-> title]
Throw(message) == Respond([error |-> message])

\* mutant: an unknown tool name falls out of the switch without a throw
UnknownTool_Silent(tool) == Respond([success |-> FALSE])

\* the default branch of the switch of handleToolCall, and its catch
UnknownTool(tool) == Throw("Unknown tool: " \o tool)

\* x || y for strings and for texts
OrString(x, y) == IF x = Null \/ x = "" THEN y ELSE x
OrText(x, y) == IF Falsy(x) THEN y ELSE x

\* the result of list_tasks; the array is held in the field items
ListResult(entries) ==
  Respond([items |->
    [k \in 1..Len(entries) |->
       [id |-> entries[k].todo.id, title |-> entries[k].todo.title,
        summary |-> entries[k].todo.summary,
        status |-> entries[k].parsed.status,
        priority |-> entries[k].parsed.priority,
        tags |-> UserTags(entries[k].todo.tags)]]])

\* the list_tasks branch: input?.status filters the live tasks
ListTasks(live, input) ==
  IF input.present /\ ~Falsy(input.status)
    THEN ListResult(ByStatus(live, input.status))
    ELSE ListResult(live)

\* the create_task branch up to its await
CreateTask(input) ==
  Request(createTodo([title |-> input.title,
                      summary |-> input.title,
                      status |-> OrText(input.status, TODO),
                      priority |-> OrText(input.priority, MEDIUM),
                      content |-> OrText(input.content, <<>>),
                      tags |-> ArrayTags(<<>>)]),
          input.title)

\* the get_task, update_task, move_task and delete_task branches once the
\* task is found and parsed
ToolOnTask(tool, input, todo, parsed) ==
  IF tool = "get_task" THEN
    Respond([id |-> todo.id, title |-> todo.title,
             summary |-> todo.summary, status |-> parsed.status,
             priority |-> parsed.priority, content |-> parsed.body,
             tags |-> UserTags(todo.tags)])
  ELSE IF tool = "update_task" THEN
    Request(updateTodo(input.id,
              [title |-> OrString(input.title, todo.title),
               summary |-> todo.summary,
               status |-> parsed.status,
               priority |-> OrText(input.priority, parsed.priority),
               content |-> IF input.content # Undefined
                             THEN input.content ELSE parsed.body,
               tags |-> ArrayTags(todo.tags)]),
            OrString(input.title, todo.title))
  ELSE IF tool = "move_task" THEN
    Request(updateTodo(input.id,
              [title |-> todo.title, summary |-> todo.summary,
               status |-> input.status, priority |-> parsed.priority,
               content |-> parsed.body, tags |-> ArrayTags(todo.tags)]),
            todo.title)
  ELSE Request(deleteTodo(input.id, todo), todo.title)

\* mutant: a task that is not in the cache is deleted from the store all
\* the same
ToolOnFound_NoCheck(tool, input, found) ==
  IF found = <<>>
    THEN Request(deleteTodo(input.id, <<>>), input.id)
    ELSE ToolOnTask(tool, input, found[1], parseContent(found[1].content))

\* the branches that start with this.todos.find(t => t.id === input.id)
ToolOnFound(tool, input, found) ==
  IF found = <<>>
    THEN Throw("Task not found: " \o input.id)
    ELSE ToolOnTask(tool, input, found[1], parseContent(found[1].content))

\* KanbanBoard.handleToolCall up to its first await or, when the tool
\* needs none, up to the TOOL_RESPONSE: what the call does next
handleToolCallStart(b, tool, input) ==
  IF tool = "list_tasks" THEN ListTasks(LiveEntries(ParseAll(b.todos)), input)
  ELSE IF tool \notin ToolNames THEN UnknownTool(tool)
  ELSE IF ~input.present THEN Throw("TypeError")
  ELSE IF tool = "create_task" THEN CreateTask(input)
  ELSE ToolOnFound(tool, input, FindTodo(b.todos, input.id))

ToolResponse(requestId, result) ==
  [type |-> "TOOL_RESPONSE", requestId |-> requestId, result |-> result]

\* the toast and the result of a mutating tool after its reload
ToolVerb(tool) ==
  CASE tool = "create_task" -> "created"
    [] tool = "update_task" -> "updated"
    [] tool = "move_task" -> "moved"
    [] OTHER -> "deleted"

\* the TOOL_CALL branch of the message listener
ToolCallMessage(payload) ==
  LET next == handleToolCallStart(board, payload.tool, payload.input)
      call == [requestId |-> payload.requestId, tool |-> payload.tool,
               input |-> payload.input]
  IN IF next.kind = "respond"
       THEN /\ outbox' = postToEmbed(outbox, ToolResponse(payload.requestId, next.result))
            /\ toolCalls' = Append(toolCalls,
                 [call |-> call, stage |-> "done"])
            /\ UNCHANGED nreq
       ELSE /\ nreq < MaxFetch
            /\ toolCalls' = Append(toolCalls,
                 [call |-> call, stage |-> "api", req |-> nreq + 1,
                  request |-> next.request, title |-> next.title])
            /\ nreq' = nreq + 1
            /\ UNCHANGED outbox

\* handleToolCall resumes when createTodo / updateTodo / deleteTodo is
\* answered: on success it goes on to loadTodos() up to its fetch, on
\* failure to its catch
ToolApiResponse(i, ok) ==
  /\ page = "app"
  /\ i \in 1..Len(toolCalls)
  /\ toolCalls[i].stage = "api"
  /\ IF ok
       THEN /\ CanServe(remote, toolCalls[i].request)
            /\ nreq < MaxFetch
            /\ remote' = Serve(remote, toolCalls[i].request, NewId(toolCalls[i].req))
            /\ toolCalls' = [toolCalls EXCEPT ![i].stage = "load", ![i].req = nreq + 1]
            /\ loads' = loads \cup {[req |-> nreq + 1, call |-> i, after |-> "toolCall"]}
            /\ nreq' = nreq + 1
            /\ UNCHANGED outbox
       ELSE /\ toolCalls' = [toolCalls EXCEPT ![i].stage = "done"]
            /\ outbox' = postToEmbed(outbox,
                 ToolResponse(toolCalls[i].call.requestId, [error |-> "API Error"]))
            /\ UNCHANGED <<remote, loads, nreq>>
  /\ lastEvent' = [kind |-> "toolApi", ok |-> ok, requestId |-> toolCalls[i].call.requestId]
  /\ UNCHANGED <<authVars, board, drops, nnav, nmsg, pollVars, calc>>

\* handleToolCall resumes when the loadTodos() it awaits has finished
ToolLoadResponse(l, ok) ==
  /\ page = "app"
  /\ l \in loads
  /\ l.call # 0
  /\ loads' = loads \ {l}
  /\ LET c == toolCalls[l.call]
         loaded == loadTodosResponse(board,
                      IF ok THEN [kind |-> "ok", fragments |-> remote]
                            ELSE [kind |-> "fail"])
     IN /\ board' = showToast(loaded, "Task " \o ToolVerb(c.call.tool) \o " by chat", "success")
        /\ toolCalls' = [toolCalls EXCEPT ![l.call].stage = "done"]
        /\ outbox' = postToEmbed(outbox,
             ToolResponse(c.call.requestId,
               [success |-> TRUE, message |-> <<c.title, ToolVerb(c.call.tool)>>]))
        /\ lastEvent' = [kind |-> "toolLoad", ok |-> ok, requestId |-> c.call.requestId]
  /\ UNCHANGED <<authVars, remote, drops, nreq, nnav, nmsg, pollVars, calc>>

\* what the window may be sent
MessageTypes == {"READY", "REQUEST_TOKEN_REFRESH", "TOOL_CALL", "TOOLS_REGISTERED"}

\* mutant: on REQUEST_TOKEN_REFRESH the token is posted without awaiting
\* refreshToken()
Dispatch_NoAwait(type, tool, input) ==
  CASE type = "READY" ->
         /\ outbox' = registerChatTools(sendAuthToEmbed(outbox, World), board)
         /\ UNCHANGED <<authVars, boardVars, nreq, nnav>>
    [] type = "REQUEST_TOKEN_REFRESH" ->
         IF refreshTokenRt(World) = Null
           THEN /\ outbox' = sendAuthToEmbed(outbox, World)
                /\ UNCHANGED <<authVars, boardVars, nreq, nnav>>
           ELSE /\ nreq < MaxFetch
                /\ refreshes' = refreshes \cup {[req |-> nreq + 1, caller |-> "timer"]}
                /\ nreq' = nreq + 1
                /\ outbox' = sendAuthToEmbed(outbox, World)
                /\ UNCHANGED <<page, urlCode, initPc, auth, timers, timerSeq,
                               localStorage, sessionStorage, boardVars, nnav>>
    [] type = "TOOL_CALL" ->
         /\ ToolCallMessage([requestId |-> nmsg + 1, tool |-> tool, input |-> input])
         /\ UNCHANGED <<authVars, loads, board, remote, drops, nnav>>
    [] OTHER -> UNCHANGED <<authVars, boardVars, outbox, nreq, nnav>>

\* the listener of bindEvents past its origin check
Dispatch(type, tool, input) ==
  CASE type = "READY" ->
         /\ outbox' = registerChatTools(sendAuthToEmbed(outbox, World), board)
         /\ UNCHANGED <<authVars, boardVars, nreq, nnav>>
    [] type = "REQUEST_TOKEN_REFRESH" ->
         IF refreshTokenRt(World) = Null
           THEN /\ outbox' = sendAuthToEmbed(outbox, World)
                /\ UNCHANGED <<authVars, boardVars, nreq, nnav>>
           ELSE /\ nreq < MaxFetch
                /\ refreshes' = refreshes \cup {[req |-> nreq + 1, caller |-> "message"]}
                /\ nreq' = nreq + 1
                /\ UNCHANGED <<page, urlCode, initPc, auth, timers, timerSeq,
                               localStorage, sessionStorage, boardVars, outbox, nnav>>
    [] type = "TOOL_CALL" ->
         /\ ToolCallMessage([requestId |-> nmsg + 1, tool |-> tool, input |-> input])
         /\ UNCHANGED <<authVars, loads, board, remote, drops, nnav>>
    [] OTHER -> UNCHANGED <<authVars, boardVars, outbox, nreq, nnav>>

\* mutant: the listener handles a message whatever its origin
OnMessage_AnyOrigin(origin, type, tool, input) ==
  /\ page = "app"
  /\ nmsg < MaxMessages
  /\ nmsg' = nmsg + 1
  /\ UNCHANGED <<pollVars, calc>>
  /\ lastEvent' = [kind |-> "message", origin |-> origin, type |-> type,
                   tool |-> tool, requestId |-> nmsg + 1]
  /\ Dispatch(type, tool, input)

\* the 'message' listener of bindEvents; the frame numbers its requests
OnMessage(origin, type, tool, input) ==
  /\ page = "app"
  /\ nmsg < MaxMessages
  /\ nmsg' = nmsg + 1
  /\ UNCHANGED <<pollVars, calc>>
  /\ lastEvent' = [kind |-> "message", origin |-> origin, type |-> type,
                   tool |-> tool, requestId |-> nmsg + 1]
  /\ IF origin # AllowedOrigin
       THEN UNCHANGED <<authVars, boardVars, outbox, nreq, nnav>>
       ELSE Dispatch(type, tool, input)

\* a postMessage event reaches the window: any message of the embedded
\* frame, and from another origin one message of each type
Message ==
  \/ \E origin \in Origins, type \in MessageTypes \ {"TOOL_CALL"} :
       OnMessage(origin, type, "", NoInput)
  \/ \E tool \in ToolNames \cup {"unknown_tool"} :
       \E input \in ToolInputs(tool) : OnMessage(AllowedOrigin, "TOOL_CALL", tool, input)
  \/ \E origin \in Origins \ {AllowedOrigin} :
       \E input \in ToolInputs("create_task") :
         OnMessage(origin, "TOOL_CALL", "create_task", input)

\* ------------------------------------------------------ specifications
\* the token lifecycle: page loads, login, logout, the refresh timer, the
\* refresh requests of the embedded frame.  The getTodos() requests stay in
\* flight: their answers change neither token state nor outbox.
AuthMessage ==
  \E type \in {"READY", "REQUEST_TOKEN_REFRESH"} :
    OnMessage(AllowedOrigin, type, "", NoInput)

AuthNext ==
  \/ \E code \in BOOLEAN : PageLoad(code)
  \/ Unload
  \/ Login
  \/ Logout
  \/ \E resp \in Responses : HandleCallbackResponse(resp)
  \/ \E r \in refreshes, resp \in Responses : RefreshResponse(r, resp)
  \/ \E t \in timers : TimerFire(t)
  \/ AuthMessage

AuthSpec == Init /\ [][AuthNext]_vars

\* the tool bridge of a signed-out session: every message the window may be
\* sent, and the requests its handlers leave in flight
BridgeInit == Init /\ localStorage[RefreshTokenKey] = Null

BridgeNext ==
  \/ Message
  \/ \E i \in 1..Len(toolCalls), ok \in BOOLEAN : ToolApiResponse(i, ok)
  \/ \E l \in loads, ok \in BOOLEAN : ToolLoadResponse(l, ok)
  \/ \E l \in loads, ok \in BOOLEAN : LoadResponse(l, ok)

BridgeSpec == BridgeInit /\ [][BridgeNext]_vars

\* the board of a signed-out session under drag and drop
BoardInit == Init /\ localStorage[RefreshTokenKey] = Null

BoardNext ==
  \/ \E l \in loads, ok \in BOOLEAN : LoadResponse(l, ok)
  \/ \E z \in 1..Len(Columns) : \E card \in SeqRange(board.zones[z]) : DragStart(card)
  \/ \E z \in 1..Len(Columns), index \in 0..2 : DragOver(z, index)
  \/ \E z \in 1..Len(Columns), now \in ClockValues : Drop(z, now)
  \/ DragCancel
  \/ \E d \in drops, ok \in BOOLEAN : DropResponse(d, ok)

BoardSpec == BoardInit /\ [][BoardNext]_vars

\* ------------------------------------------------------------ chat panel
clearInterval(ivs, handle) == ivs \ {handle}

\* mutant: closing the panel forgets the handle without clearing it
chatFabClick_NoClear(b, ivs, id) ==
  IF ~b.chatOpen
    THEN [board |-> [b EXCEPT !.chatOpen = TRUE, !.chatPollInterval = id],
          intervals |-> ivs \cup {id}]
    ELSE [board |-> [b EXCEPT !.chatOpen = FALSE, !.chatPollInterval = NoTimer],
          intervals |-> ivs]

\* the click listener of the chat button, for the panel and the poll: the
\* panel's open class is toggled; id is the handle setInterval returns
chatFabClick(b, ivs, id) ==
  IF ~b.chatOpen
    THEN [board |-> [b EXCEPT !.chatOpen = TRUE, !.chatPollInterval = id],
          intervals |-> ivs \cup {id}]
    ELSE [board |-> [b EXCEPT !.chatOpen = FALSE, !.chatPollInterval = NoTimer],
          intervals |-> clearInterval(ivs, b.chatPollInterval)]

\* a click on the chat button; on opening, the token and the tools are
\* sent to the frame as on READY
ChatToggle ==
  /\ page = "app"
  /\ ~board.chatOpen => timerSeq < MaxOpens
  /\ LET next == chatFabClick(board, intervals, timerSeq + 1)
     IN /\ board' = next.board
        /\ intervals' = next.intervals
        /\ timerSeq' = IF next.board.chatOpen THEN timerSeq + 1 ELSE timerSeq
        /\ outbox' = IF next.board.chatOpen
                       THEN registerChatTools(sendAuthToEmbed(outbox, World), board)
                       ELSE outbox
        /\ lastEvent' = [kind |-> "chatFab", open |-> next.board.chatOpen]
  /\ UNCHANGED <<page, urlCode, initPc, auth, timers, localStorage, sessionStorage,
                 refreshes, loads, remote, toolCalls, drops, nreq, nnav, nmsg,
                 polls, calc>>

\* the poll interval elapses: refreshSilently() up to its fetch
PollTick(id) ==
  /\ page = "app"
  /\ id \in intervals
  /\ nreq < MaxFetch
  /\ polls' = polls \cup {[req |-> nreq + 1]}
  /\ nreq' = nreq + 1
  /\ lastEvent' = [kind |-> "pollTick", id |-> id]
  /\ UNCHANGED <<authVars, boardVars, outbox, nnav, nmsg, intervals, calc>>

\* mutant: a failed silent refresh is reported like a failed load
refreshSilentlyResponse_Reports(b, resp) ==
  IF resp.kind = "ok" /\ resp.fragments # b.todos
    THEN renderBoard([b EXCEPT !.todos = resp.fragments])
    ELSE IF resp.kind = "ok" THEN b
    ELSE showToast(b, "Failed to load tasks", "error")

\* KanbanBoard.refreshSilently from the arrival of getTodos' response: the
\* board changes when the list fetched differs from the cache
refreshSilentlyResponse(b, resp) ==
  IF resp.kind = "ok" /\ resp.fragments # b.todos
    THEN renderBoard([b EXCEPT !.todos = resp.fragments])
    ELSE b

\* a refreshSilently() call resumes when getTodos() is answered
SilentResponse(p, ok) ==
  /\ page = "app"
  /\ p \in polls
  /\ polls' = polls \ {p}
  /\ board' = refreshSilentlyResponse(board,
                 IF ok THEN [kind |-> "ok", fragments |-> remote]
                       ELSE [kind |-> "fail"])
  /\ outbox' = IF ok /\ remote # board.todos
                 THEN sendBoardContext(outbox, board')
                 ELSE outbox
  /\ lastEvent' = [kind |-> "refreshSilently", ok |-> ok,
                   changed |-> ok /\ remote # board.todos]
  /\ UNCHANGED <<authVars, loads, remote, toolCalls, drops, nreq, nnav, nmsg,
                 intervals, calc>>

\* the chat panel of a signed-out session: the chat button, the poll and
\* the loads in flight
PanelInit == Init /\ localStorage[RefreshTokenKey] = Null

PanelNext ==
  \/ \E l \in loads, ok \in BOOLEAN : LoadResponse(l, ok)
  \/ ChatToggle
  \/ \E id \in intervals : PollTick(id)
  \/ \E p \in polls, ok \in BOOLEAN : SilentResponse(p, ok)

PanelSpec == PanelInit /\ [][PanelNext]_vars

\* ------------------------------------------------------------ the codec
\* what buildContent may be given: every status and priority, two sort keys
\* and bodies that do not start with the delimiter
CodecStatuses == {TODO, IN_PROGRESS, DONE, DELETED}
CodecPriorities == {LOW, MEDIUM, HIGH}
CodecSorts == {0, 7}
CodecBodies ==
  { <<>>, <<"x">>, <<" ", "x">>, <<"x", NL>>,
    <<"a", NL, "-", "-", "-", NL, "b">> }

CodecTodos ==
  [status : CodecStatuses, priority : CodecPriorities, sort : CodecSorts,
   content : CodecBodies]

\* what parseContent may be given that buildContent did not write: absent
\* and empty content, text without delimiters, a header that is never
\* closed, a closing delimiter that is not a line of its own
RawContents ==
  { Undefined, <<>>, <<"x">>, <<" ", "x", NL>>,
    StatusKey \o <<" ">> \o DONE,
    Delim,
    Delim \o <<NL>> \o StatusKey \o <<" ">> \o DONE,
    Delim \o <<NL>> \o StatusKey \o <<" ">> \o DONE \o <<NL>> \o Delim \o <<"x">>,
    Delim \o <<NL>> \o StatusKey \o <<" ">> \o DONE \o <<NL>> \o Delim \o <<NL, "x">> }

\* the codec applied to one input: encode then decode, or decode alone
CodecInit ==
  /\ PageInit
  /\ localStorage[RefreshTokenKey] = Null
  /\ calc \in [op : {"encode"}, todo : CodecTodos]
             \cup [op : {"decode"}, todo : {<<>>}, content : RawContents]

\* UsableAPI.buildContent is applied to the todo
Encode ==
  /\ calc.op = "encode"
  /\ calc' = [op |-> "decode", todo |-> calc.todo, content |-> buildContent(calc.todo)]
  /\ UNCHANGED <<authVars, boardVars, outbox, nreq, nnav, nmsg, lastEvent, pollVars>>

\* UsableAPI.parseContent is applied to the content
Decode ==
  /\ calc.op = "decode"
  /\ calc' = [op |-> "decoded", todo |-> calc.todo, content |-> calc.content,
              parsed |-> parseContent(calc.content)]
  /\ UNCHANGED <<authVars, boardVars, outbox, nreq, nnav, nmsg, lastEvent, pollVars>>

CodecNext == Encode \/ Decode

CodecSpec == CodecInit /\ [][CodecNext]_vars

\* -------------------------------------------------------- the allocator
\* the sort keys stored with the neighbours of a drop
NeighbourKeys == 0..7

SortKeyLine == <<"s", "o", "r", "t", ":">>
Digit(n) == <<"0", "1", "2", "3", "4", "5", "6", "7", "8", "9">>[n + 1]

\* a fragment whose content has the documented structure: the status, the
\* priority and the sort key as header lines, then the body
StoredFragment(id, status, priority, sort, body) ==
  [id |-> id, title |-> id, summary |-> id,
   content |-> Delim \o <<NL>>
                 \o StatusKey \o <<" ">> \o status \o <<NL>>
                 \o PriorityKey \o <<" ">> \o priority \o <<NL>>
                 \o SortKeyLine \o <<" ", Digit(sort), NL>>
                 \o Delim \o <<NL, NL>> \o body,
   tags |-> DEFAULT_TAGS]

\* the board once loadTodos() has fetched two tasks of the todo column that
\* are stored with these sort keys
NeighbourBoard(prev, next) ==
  loadTodosResponse(InitialBoard,
    [kind |-> "ok",
     fragments |-> <<StoredFragment("P", TODO, MEDIUM, prev, <<>>),
                     StoredFragment("Q", TODO, MEDIUM, next, <<>>)>>])

\* the allocator applied to one input: a drop between two neighbours, or
\* two drops in succession into a column without cards, the second reading
\* the clock no earlier than the first
AllocInit ==
  /\ PageInit
  /\ localStorage[RefreshTokenKey] = Null
  /\ calc \in [op : {"between"}, prev : NeighbourKeys, next : NeighbourKeys]
             \cup {c \in [op : {"empty"}, first : ClockValues, second : ClockValues] :
                     c.first <= c.second}

\* calculateSortValue for a drop between the two cards of the todo column
AllocateBetween ==
  /\ calc.op = "between"
  /\ \E now \in ClockValues :
       calc' = [op |-> "allocated", prev |-> calc.prev, next |-> calc.next,
                key |-> calculateSortValue(NeighbourBoard(calc.prev, calc.next), 1, 1, now)]
  /\ UNCHANGED <<authVars, boardVars, outbox, nreq, nnav, nmsg, lastEvent, pollVars>>

\* calculateSortValue for a drop into a column without cards
AllocateFirst ==
  /\ calc.op = "empty"
  /\ calc' = [op |-> "first", first |-> calc.first, second |-> calc.second,
              key1 |-> calculateSortValue(InitialBoard, 2, 0, calc.first)]
  /\ UNCHANGED <<authVars, boardVars, outbox, nreq, nnav, nmsg, lastEvent, pollVars>>

\* calculateSortValue for the next drop into a column without cards
AllocateSecond ==
  /\ calc.op = "first"
  /\ calc' = [op |-> "second", first |-> calc.first, second |-> calc.second,
              key1 |-> calc.key1,
              key2 |-> calculateSortValue(InitialBoard, 3, 0, calc.second)]
  /\ UNCHANGED <<authVars, boardVars, outbox, nreq, nnav, nmsg, lastEvent, pollVars>>

AllocNext == AllocateBetween \/ AllocateFirst \/ AllocateSecond

AllocSpec == AllocInit /\ [][AllocNext]_vars

\* ------------------------------------------------- the tools' requests
\* the stored fragments update_task and move_task may find in the cache:
\* contents as buildContent writes them and contents of the documented
\* structure, whose header carries a sort key
FrameFragments ==
  {Fragment("A", "Alpha", st, pr, body, <<<<"u", "i">>>>) :
     st \in SeqRange(Columns), pr \in {LOW, HIGH}, body \in {<<>>, <<"x">>}}
  \cup
  {[StoredFragment("A", st, pr, 3, body) EXCEPT !.title = "Alpha"] :
     st \in SeqRange(Columns), pr \in {LOW, HIGH}, body \in {<<>>, <<"x">>}}

\* the inputs of the two tools for the task A
FrameInputs(tool) ==
  IF tool = "update_task"
    THEN {[NoInput EXCEPT !.present = TRUE, !.id = "A", !.title = "Delta"],
          [NoInput EXCEPT !.present = TRUE, !.id = "A", !.priority = MEDIUM],
          [NoInput EXCEPT !.present = TRUE, !.id = "A", !.content = <<"y">>]}
    ELSE {[NoInput EXCEPT !.present = TRUE, !.id = "A", !.status = st] :
            st \in SeqRange(Columns)}

\* update_task or move_task applied to one cached task
FrameInit ==
  /\ PageInit
  /\ localStorage[RefreshTokenKey] = Null
  /\ calc \in {c \in [op : {"tool"}, tool : {"update_task", "move_task"},
                       stored : FrameFragments,
                       input : FrameInputs("update_task") \cup FrameInputs("move_task")] :
                 c.input \in FrameInputs(c.tool)}

\* the fragment the store holds once it has served the request the tool
\* makes for a cache that holds the stored fragment
ToolEffect(tool, input, stored) ==
  Serve(<<stored>>,
        handleToolCallStart(
          loadTodosResponse(InitialBoard, [kind |-> "ok", fragments |-> <<stored>>]),
          tool, input).request,
        NewId(0))[1]

\* handleToolCall's update_task or move_task branch up to the answer of its
\* updateTodo()
ApplyTool ==
  /\ calc.op = "tool"
  /\ calc' = [op |-> "applied", tool |-> calc.tool, stored |-> calc.stored,
              input |-> calc.input,
              after |-> ToolEffect(calc.tool, calc.input, calc.stored)]
  /\ UNCHANGED <<authVars, boardVars, outbox, nreq, nnav, nmsg, lastEvent, pollVars>>

FrameNext == ApplyTool

FrameSpec == FrameInit /\ [][FrameNext]_vars

\* ------------------------------------------------------------ rendering
\* a status that is none of CONFIG.STATUSES nor 'deleted'
BLOCKED == <<"b", "l", "o", "c", "k", "e", "d">>

\* the caches renderBoard may be given: one or two tasks of the documented
\* structure, of every kind of status, stored with either of two sort keys
RenderFragments(id) ==
  {StoredFragment(id, st, MEDIUM, k, <<>>) :
     st \in {TODO, IN_PROGRESS, DELETED, BLOCKED}, k \in {3, 7}}

RenderCaches ==
  {<<p>> : p \in RenderFragments("P")}
    \cup {<<p, q>> : p \in RenderFragments("P"), q \in RenderFragments("Q")}

\* renderBoard applied to one cache
RenderInit ==
  /\ PageInit
  /\ localStorage[RefreshTokenKey] = Null
  /\ calc \in [op : {"render"}, todos : RenderCaches]

\* KanbanBoard.renderBoard on the board whose cache is the list
Render ==
  /\ calc.op = "render"
  /\ calc' = [op |-> "rendered", todos |-> calc.todos,
              board |-> renderBoard([InitialBoard EXCEPT !.todos = calc.todos])]
  /\ UNCHANGED <<authVars, boardVars, outbox, nreq, nnav, nmsg, lastEvent, pollVars>>

\* KanbanBoard.getBoardContext on the board that was rendered
Digest ==
  /\ calc.op = "rendered"
  /\ calc' = [op |-> "digested", todos |-> calc.todos, board |-> calc.board,
              context |-> getBoardContext(calc.board)]
  /\ UNCHANGED <<authVars, boardVars, outbox, nreq, nnav, nmsg, lastEvent, pollVars>>

RenderNext == Render \/ Digest

RenderSpec == RenderInit /\ [][RenderNext]_vars

\* ------------------------------------------------------ a drop's key
\* The board once loadTodos() has fetched the task A of the given status
\* and key, a deleted task D and the task B of the todo column with its key,
\* A's card has been picked up and the indicator stands at the index in the
\* todo column.
DropBoard(status, own, other, index) ==
  positionDropIndicator(
    handleDragStart(
      loadTodosResponse(InitialBoard,
        [kind |-> "ok",
         fragments |-> <<StoredFragment("A", status, MEDIUM, own, <<>>),
                         StoredFragment("D", DELETED, MEDIUM, 5, <<>>),
                         StoredFragment("B", TODO, MEDIUM, other, <<>>)>>]),
      <<0, "A">>),
    1, index)

\* a drop of A into the todo column, above or below B
DropInit ==
  /\ PageInit
  /\ localStorage[RefreshTokenKey] = Null
  /\ calc \in [op : {"drop"}, status : {TODO, IN_PROGRESS}, own : {1, 6},
               other : NeighbourKeys, index : {0, 1}, now : ClockValues]

\* what handleDrop takes as neighbours and what it asks the store for
DropOutcome(b, now) ==
  [neighbours |-> [k \in 1..Len(NotDragging(b, 1)) |-> NotDragging(b, 1)[k][2]],
   calls |-> handleDropStart(b, 1, now).calls,
   key |-> handleDropStart(b, 1, now).newSort,
   newStatus |-> handleDropStart(b, 1, now).newStatus]

\* KanbanBoard.handleDrop on the todo column, up to its await
DropOnColumn ==
  /\ calc.op = "drop"
  /\ calc' = [op |-> "dropped", status |-> calc.status, own |-> calc.own,
              other |-> calc.other, index |-> calc.index, now |-> calc.now,
              out |-> DropOutcome(DropBoard(calc.status, calc.own, calc.other, calc.index),
                                  calc.now)]
  /\ UNCHANGED <<authVars, boardVars, outbox, nreq, nnav, nmsg, lastEvent, pollVars>>

DropNext == DropOnColumn

DropSpec == DropInit /\ [][DropNext]_vars

\* ------------------------------------------------------------- the tags
MaxTagChars == 3
TagChars == {"U", "i", " ", ","}

\* what the form's tags field may hold: every short text of letters in both
\* cases, blanks and commas, and one that repeats a default tag and a tag
TagTexts ==
  UNION {[1..n -> TagChars] : n \in 0..MaxTagChars}
    \cup {<<"t", "o", "d", "o", ",", " ", "U", ",", "u", ",">>}

\* what a tool call or a cached fragment may give as one tag
TagItems ==
  {<<>>, <<" ">>, <<"U">>, <<"u">>, <<" ", "i", NL>>, <<"t", "o", "d", "o">>}

\* the tags property of the todo handed to createTodo or updateTodo: the
\* text of the form, an array of the tool bridge or of the cache, or none
TagInputs ==
  [type : {"string"}, value : TagTexts]
    \cup {ArrayTags(items) : items \in UNION {[1..n -> TagItems] : n \in 0..2}}
    \cup {[type |-> "undefined"]}

TaggedTodo(tags) ==
  [title |-> "A", summary |-> Null, status |-> TODO, priority |-> MEDIUM,
   sort |-> 0, content |-> <<>>, tags |-> tags]

\* one call of createTodo or updateTodo with one tags input
TagsInit ==
  /\ PageInit
  /\ localStorage[RefreshTokenKey] = Null
  /\ calc \in [op : {"create", "update"}, tags : TagInputs]

\* UsableAPI.createTodo up to its request
CreateTagged ==
  /\ calc.op = "create"
  /\ calc' = [op |-> "sent", tags |-> calc.tags,
              body |-> createTodo(TaggedTodo(calc.tags))]
  /\ UNCHANGED <<authVars, boardVars, outbox, nreq, nnav, nmsg, lastEvent, pollVars>>

\* UsableAPI.updateTodo up to its request
UpdateTagged ==
  /\ calc.op = "update"
  /\ calc' = [op |-> "sent", tags |-> calc.tags,
              body |-> updateTodo("A", TaggedTodo(calc.tags))]
  /\ UNCHANGED <<authVars, boardVars, outbox, nreq, nnav, nmsg, lastEvent, pollVars>>

TagsNext == CreateTagged \/ UpdateTagged

TagsSpec == TagsInit /\ [][TagsNext]_vars

\* ------------------------------------------------- a move and its reload
\* the keys stored with the two tasks of the target column: apart, adjacent
\* and equal
MoveKeys == {0, 3, 4}

\* the store: the task that is moved, then the tasks P and Q of the todo
\* column
MoveStore(status, p, q) ==
  <<StoredFragment("A", status, MEDIUM, 3, <<>>),
    StoredFragment("P", TODO, MEDIUM, p, <<>>),
    StoredFragment("Q", TODO, MEDIUM, q, <<>>)>>

\* the board once the store is loaded, A is dragged and the indicator stands
\* at this index of the todo column
MoveBoard(store, index) ==
  positionDropIndicator(
    handleDragStart(
      loadTodosResponse(InitialBoard, [kind |-> "ok", fragments |-> store]),
      <<0, "A">>),
    1, index)

\* the ids of the cards of the todo column, top to bottom
TodoColumn(b) == [k \in 1..Len(b.zones[1]) |-> b.zones[1][k][2]]

\* what the todo column shows after the drop, and after the store has
\* applied the update and loadTodos() has fetched and rendered it
MoveOutcome(store, out) ==
  [dropped |-> TodoColumn(out.board),
   reloaded |-> TodoColumn(
       loadTodosResponse(
         handleDragEnd(out.board),
         [kind |-> "ok",
          fragments |-> IF out.calls THEN Serve(store, out.request, "N") ELSE store]))]

\* a drop of A at an index of the todo column, whose tasks P and Q are
\* stored with keys in ascending order
MoveInit ==
  /\ PageInit
  /\ localStorage[RefreshTokenKey] = Null
  /\ calc \in {c \in [op : {"move"}, status : {TODO, IN_PROGRESS}, p : MoveKeys,
                      q : MoveKeys, index : 0..2, now : ClockValues] : c.p <= c.q}

\* KanbanBoard.handleDrop, the update, KanbanBoard.loadTodos
DropAndReload ==
  /\ calc.op = "move"
  /\ calc' = [op |-> "moved", status |-> calc.status, p |-> calc.p, q |-> calc.q,
              index |-> calc.index, now |-> calc.now,
              out |-> MoveOutcome(
                        MoveStore(calc.status, calc.p, calc.q),
                        handleDropStart(
                          MoveBoard(MoveStore(calc.status, calc.p, calc.q), calc.index),
                          1, calc.now))]
  /\ UNCHANGED <<authVars, boardVars, outbox, nreq, nnav, nmsg, lastEvent, pollVars>>

MoveNext == DropAndReload

MoveSpec == MoveInit /\ [][MoveNext]_vars

\* ----------------------------------------------------- the embedded chat
\* the token lifecycle together with the loads of the board: what the frame
\* is sent on READY and on REQUEST_TOKEN_REFRESH, signed in or not, with the
\* cache empty or loaded
EmbedNext ==
  \/ AuthNext
  \/ \E l \in loads, ok \in BOOLEAN : LoadResponse(l, ok)

EmbedSpec == Init /\ [][EmbedNext]_vars

\* ------------------------------------------------------------ properties
\* the TOOL_RESPONSE messages posted so far that carry this requestId
Responses_To(requestId) ==
  {k \in 1..Len(outbox) :
     outbox[k].type = "TOOL_RESPONSE" /\ outbox[k].requestId = requestId}

\* the result answers this call: an error, or what the call's tool returns
\* for the call's own input
AnswersCall(c, result) ==
  \/ "error" \in DOMAIN result
  \/ /\ c.call.tool = "list_tasks"
     /\ "items" \in DOMAIN result
  \/ /\ c.call.tool = "get_task"
     /\ "content" \in DOMAIN result
     /\ result.id = c.call.input.id
  \/ /\ c.call.tool \in {"create_task", "update_task", "move_task", "delete_task"}
     /\ "message" \in DOMAIN result
     /\ result.message = <<c.title, ToolVerb(c.call.tool)>>

\* C1: for every TOOL_CALL received from the allowed origin, a handler that
\* has ended has posted exactly one TOOL_RESPONSE with the call's requestId,
\* answering that call; a handler that has not ended has posted none and is
\* waiting on a request in flight; no TOOL_RESPONSE carries another id.
C1_OneResponsePerCall ==
  /\ \A i \in 1..Len(toolCalls) :
       LET c == toolCalls[i]
           sent == Responses_To(c.call.requestId)
       IN /\ Cardinality(sent) = IF c.stage = "done" THEN 1 ELSE 0
          /\ \A k \in sent : AnswersCall(c, outbox[k].result)
          /\ c.stage \in {"done", "api", "load"}
          /\ c.stage = "load" => \E l \in loads : l.call = i
  /\ \A k \in 1..Len(outbox) :
       outbox[k].type = "TOOL_RESPONSE" =>
         \E i \in 1..Len(toolCalls) : toolCalls[i].call.requestId = outbox[k].requestId

\* two calls overlapped: the first, a create_task, was answered with its
\* success after the second, a get_task, had been answered
C1_Witness ==
  /\ Len(toolCalls) = 2
  /\ toolCalls[1].call.tool = "create_task"
  /\ toolCalls[2].call.tool = "get_task"
  /\ toolCalls[1].stage = "done" /\ toolCalls[2].stage = "done"
  /\ \E j, k \in 1..Len(outbox) :
       /\ j < k
       /\ outbox[j].type = "TOOL_RESPONSE"
       /\ outbox[j].requestId = toolCalls[2].call.requestId
       /\ "content" \in DOMAIN outbox[j].result
       /\ outbox[k].type = "TOOL_RESPONSE"
       /\ outbox[k].requestId = toolCalls[1].call.requestId
       /\ "success" \in DOMAIN outbox[k].result

\* the step is the listener's task for a TOOL_CALL of the allowed origin
\* that names no registered tool
UnknownToolCall ==
  /\ lastEvent'.kind = "message"
  /\ lastEvent'.origin = AllowedOrigin
  /\ lastEvent'.type = "TOOL_CALL"
  /\ lastEvent'.tool \notin ToolNames

\* C2: a TOOL_CALL naming no registered tool posts exactly one message, a
\* TOOL_RESPONSE with the call's requestId and an error field, issues no
\* request and leaves the task cache and the store unchanged.
C2_UnknownToolError ==
  [][UnknownToolCall =>
       /\ Len(outbox') = Len(outbox) + 1
       /\ SubSeq(outbox', 1, Len(outbox)) = outbox
       /\ outbox'[Len(outbox')].type = "TOOL_RESPONSE"
       /\ outbox'[Len(outbox')].requestId = lastEvent'.requestId
       /\ "error" \in DOMAIN outbox'[Len(outbox')].result
       /\ nreq' = nreq
       /\ loads' = loads
       /\ board'.todos = board.todos
       /\ remote' = remote]_vars

\* an unknown tool was called while the cache held the loaded tasks
C2_Witness ==
  /\ lastEvent.kind = "message"
  /\ lastEvent.origin = AllowedOrigin
  /\ lastEvent.type = "TOOL_CALL"
  /\ lastEvent.tool = "unknown_tool"
  /\ board.todos # <<>>

\* C3: a message of any type from another origin than the allowed one
\* changes no token state, timer, storage, cache or board, issues no request
\* and posts no message.
C3_ForeignOriginIgnored ==
  [][(lastEvent'.kind = "message" /\ lastEvent'.origin # AllowedOrigin) =>
       UNCHANGED <<authVars, boardVars, outbox, nreq>>]_vars

\* a TOOL_CALL of another origin was delivered while the cache held tasks
C3_Witness ==
  /\ lastEvent.kind = "message"
  /\ lastEvent.origin # AllowedOrigin
  /\ lastEvent.type = "TOOL_CALL"
  /\ board.todos # <<>>

\* the task that ran last was a refreshToken() resuming on a response of
\* this kind
RefreshEnded(kind) == lastEvent.kind = "refreshToken" /\ lastEvent.resp = kind

\* the task that ran last was handleCallback() resuming on this response
CallbackEnded(kind) == lastEvent.kind = "handleCallback" /\ lastEvent.resp = kind

\* C4: when refreshToken() has received a non-success response, the access
\* token and the refresh token, in memory and in localStorage, are cleared,
\* isAuthenticated() is false and no refresh timer is pending, whichever
\* caller started the refresh.
C4_RefreshNotOkClearsAll ==
  RefreshEnded("notok") =>
    /\ auth.accessToken = Null
    /\ auth.refreshToken = Null
    /\ localStorage[RefreshTokenKey] = Null
    /\ ~isAuthenticated(World)
    /\ timers = {}

\* C5: when a token-lifecycle operation has failed (refreshToken() on a
\* non-success response or on a transport error, handleCallback() on a
\* failed code exchange), the session is logged out: no access token is
\* held.
C5_FailureLogsOut ==
  (RefreshEnded("notok") \/ RefreshEnded("throw")
     \/ CallbackEnded("notok") \/ CallbackEnded("throw"))
    => ~isAuthenticated(World)

\* C6: at most one refresh timer is pending in every reachable state.
C6_OneRefreshTimer == Cardinality(timers) <= 1

\* a refresh asked for by the embedded frame has re-armed the timer that the
\* session restore had armed
C6_Witness == RefreshEnded("ok") /\ lastEvent.caller = "message" /\ timerSeq = 2

\* C7: in every reachable state no access token is held by localStorage or
\* sessionStorage; localStorage holds at most a refresh token and
\* sessionStorage at most the PKCE verifier.
C7_AccessTokenInMemoryOnly ==
  /\ \A k \in LocalKeys : localStorage[k] \notin AccessTokens
  /\ \A k \in SessionKeys : sessionStorage[k] \notin AccessTokens
  /\ localStorage[RefreshTokenKey] \in RefreshTokens \cup {"rt1", Null}
  /\ sessionStorage[VerifierKey] \in Verifiers \cup {Null}

\* tokens have been received and the refresh token of the response stored
C7_Witness ==
  /\ auth.accessToken \in AccessTokens
  /\ auth.refreshToken \in RefreshTokens
  /\ localStorage[RefreshTokenKey] = auth.refreshToken

\* C8: a logout() step ends with the access token null, the in-memory
\* refresh token null, the refresh token removed from localStorage and no
\* refresh timer pending.
C8_LogoutClearsAll ==
  [][Logout =>
       /\ auth'.accessToken = Null
       /\ auth'.refreshToken = Null
       /\ localStorage'[RefreshTokenKey] = Null
       /\ timers' = {}]_vars

\* logout() has run while the refresh timer was pending
C8_Witness == lastEvent.kind = "logout" /\ lastEvent.pending

\* C9: when handleCallback() has run with an authorization code present, the
\* PKCE verifier is no longer in sessionStorage, whether the code exchange
\* succeeded or failed.
C9_VerifierRemoved ==
  lastEvent.kind = "handleCallback" => sessionStorage[VerifierKey] = Null

\* C10: a drop of a task into its own column at its current position
\* issues no update request and leaves the task cache unchanged.
C10_OwnSlotDropIsNoOp ==
  [][(lastEvent'.kind = "drop" /\ lastEvent'.ownSlot) =>
       /\ nreq' = nreq
       /\ drops' = drops
       /\ board'.todos = board.todos]_vars

\* the ids of the cards each column shows, top to bottom
Displayed(b) ==
  [c \in 1..Len(Columns) |-> [k \in 1..Len(b.zones[c]) |-> b.zones[c][k][2]]]

\* the column a fragment of the store belongs to by its own content: 0 when
\* deleted, the todo column when its status is none of the three
StoreColumn(fragment) ==
  LET status == parseContent(fragment.content).status
  IN IF status = DELETED THEN 0
     ELSE IF \E c \in 1..Len(Columns) : Columns[c] = status
       THEN CHOOSE c \in 1..Len(Columns) : Columns[c] = status
       ELSE 1

\* the ids of the fragments of the store by column, in the order of the
\* store: no stored content carries a sort key the codec reads, so this is
\* their order by sort key
StoreByColumn(store) ==
  [c \in 1..Len(Columns) |->
     LET at == SelectSeq2([k \in 1..Len(store) |-> k],
                          {k \in 1..Len(store) : StoreColumn(store[k]) = c})
     IN [k \in 1..Len(at) |-> store[at[k]].id]]

\* C11: when the update request of a drop fails, the handler issues one
\* load request and no further update request, and leaves the store alone;
\* when a load succeeds, the cache is the store's task list and the columns
\* show exactly the store's tasks, each in the column of its stored status,
\* with nothing left of an optimistic move.
C11_FailedMoveReloads ==
  [][/\ (lastEvent'.kind = "dropResponse" /\ ~lastEvent'.ok) =>
          /\ \E l \in loads' \ loads : l.call = 0 /\ l.req = nreq'
          /\ Cardinality(loads' \ loads) = 1
          /\ drops' \subseteq drops /\ drops' # drops
          /\ remote' = remote
     /\ (lastEvent'.kind = "loadTodos" /\ lastEvent'.ok) =>
          /\ board'.todos = remote'
          /\ Displayed(board') = StoreByColumn(remote')
          /\ \A c \in 1..Len(Columns) : \A k \in 1..Len(board'.zones[c]) :
               board'.cards[board'.zones[c][k]].parsed.status
                 = parseContent(FindTodo(remote', board'.zones[c][k][2])[1].content).status
          /\ board'.counts = [c \in 1..Len(Columns) |-> Len(StoreByColumn(remote')[c])]]_vars

\* the update request of a drop failed and the reload that its failure
\* started has succeeded: the columns show the tasks of the unchanged store
C11_Witness ==
  /\ lastEvent.kind = "loadTodos"
  /\ lastEvent.ok
  /\ lastEvent.after = "updateFailed"
  /\ remote \in InitialRemotes
  /\ Displayed(board) = StoreByColumn(remote)

C13_RoundTrip ==
  (calc.op = "decoded" /\ calc.todo # <<>>) =>
    /\ calc.parsed.status = calc.todo.status
    /\ calc.parsed.priority = calc.todo.priority
    /\ ParsedSort(calc.parsed) = calc.todo.sort
    /\ calc.parsed.body = calc.todo.content

\* the content opens with a delimiter line and a later line is a delimiter
HasHeader(content) ==
  /\ ~Falsy(content)
  /\ StartsWithAt(content, FrontmatterOpen, 1)
  /\ \E k \in (Len(FrontmatterOpen) + 1)..(Len(content) - Len(Delim) + 1) :
       /\ content[k - 1] = NL
       /\ SubSeq(content, k, k + Len(Delim) - 1) = Delim
       /\ (k + Len(Delim) > Len(content) \/ content[k + Len(Delim)] = NL)

\* C14: decoding content that has no header between two delimiter lines,
\* absent and empty content included, returns status todo, priority medium,
\* sort 0 and the whole input as body.
C14_DecodeDefaults ==
  (calc.op = "decoded" /\ ~HasHeader(calc.content)) =>
    /\ calc.parsed.status = TODO
    /\ calc.parsed.priority = MEDIUM
    /\ ParsedSort(calc.parsed) = 0
    /\ calc.parsed.body = IF Falsy(calc.content) THEN <<>> ELSE calc.content

\* C15: for neighbour keys a < b, the key allocated for a drop between the
\* two neighbours is k = floor((a + b) / 2), and a <= k <= b.
C15_MidpointBetweenNeighbours ==
  (calc.op = "allocated" /\ calc.prev < calc.next) =>
    /\ 2 * calc.key <= calc.prev + calc.next
    /\ calc.prev + calc.next < 2 * calc.key + 2
    /\ calc.prev <= calc.key
    /\ calc.key <= calc.next

\* C16: two allocations in succession for drops into a column without cards
\* return a strictly increasing pair of keys, whatever the two clock
\* readings.
C16_EmptyColumnKeysIncrease ==
  calc.op = "second" => calc.key1 < calc.key2

\* the places of the outbox where a delete_task call was answered with
\* success, each with the id of the task deleted
DeletedByTool ==
  {<<k, toolCalls[i].call.input.id>> :
     k \in 1..Len(outbox),
     i \in {j \in 1..Len(toolCalls) :
              /\ toolCalls[j].call.tool = "delete_task"
              /\ toolCalls[j].stage = "done"}}

\* the call that the TOOL_RESPONSE at place k of the outbox answers
CallAnswered(k) ==
  toolCalls[CHOOSE i \in 1..Len(toolCalls) :
              toolCalls[i].call.requestId = outbox[k].requestId].call

\* C17: once delete_task has deleted task C, C is still in the store and
\* its parsed status is deleted; a later list_tasks without status filter
\* does not return C; a later get_task(C.id) returns C and no error.
C17_SoftDeleteKeepsTask ==
  \A d \in DeletedByTool :
    (/\ outbox[d[1]].type = "TOOL_RESPONSE"
     /\ CallAnswered(d[1]).tool = "delete_task"
     /\ CallAnswered(d[1]).input.id = d[2]
     /\ "success" \in DOMAIN outbox[d[1]].result) =>
       /\ \E n \in 1..Len(remote) :
            /\ remote[n].id = d[2]
            /\ parseContent(remote[n].content).status = DELETED
       /\ \A k \in (d[1] + 1)..Len(outbox) :
            outbox[k].type = "TOOL_RESPONSE" =>
              /\ (/\ CallAnswered(k).tool = "list_tasks"
                  /\ ~CallAnswered(k).input.present) =>
                    \A m \in 1..Len(outbox[k].result.items) :
                      outbox[k].result.items[m].id # d[2]
              /\ (/\ CallAnswered(k).tool = "get_task"
                  /\ CallAnswered(k).input.id = d[2]) =>
                    /\ "error" \notin DOMAIN outbox[k].result
                    /\ outbox[k].result.id = d[2]

\* the ids of the cached tasks whose parsed status is not deleted
LiveIds(todos) ==
  {todos[k].id : k \in {j \in 1..Len(todos) :
                          parseContent(todos[j].content).status # DELETED}}

\* the board shows no deleted task: every card of a column, and so every
\* neighbour a sort key is computed from, is a live task; the column counts
\* add up to the number of live tasks, and so does the total count
ViewsExcludeDeleted(b) ==
  /\ \A c \in 1..Len(Columns) : \A k \in 1..Len(b.zones[c]) :
       b.zones[c][k][2] \in LiveIds(b.todos)
  /\ b.counts[1] + b.counts[2] + b.counts[3] = Cardinality(LiveIds(b.todos))
  /\ b.taskCount = Cardinality(LiveIds(b.todos))

\* the message tells of no deleted task of this cache: a list_tasks result
\* holds live tasks only, a board context counts and lists live tasks only
MessageExcludesDeleted(message, todos) ==
  /\ (message.type = "TOOL_RESPONSE" /\ "items" \in DOMAIN message.result) =>
       \A m \in 1..Len(message.result.items) :
         /\ message.result.items[m].id \in LiveIds(todos)
         /\ message.result.items[m].status # DELETED
  /\ message.type = "ADD_CONTEXT" =>
       /\ message.text.total = Cardinality(LiveIds(todos))
       /\ \A c \in 1..Len(Columns) : \A m \in 1..Len(message.text.listed[c]) :
            message.text.listed[c][m] \in LiveIds(todos)

\* C18: after every step the tasks whose parsed status is deleted are absent
\* from the three columns, from the column counts, from the total task
\* count and from the neighbours of a drop, and every list_tasks result and
\* board context posted by the step leaves them out.
C18_DeletedExcludedEverywhere ==
  [][/\ ViewsExcludeDeleted(board')
     /\ \A k \in (Len(outbox) + 1)..Len(outbox') :
          MessageExcludesDeleted(outbox'[k], board'.todos)]_vars

\* C19: the step in which a create_task, update_task, move_task or
\* delete_task call ends with success leaves the cache equal to the store's
\* task list and posts an ADD_CONTEXT message whose text is the digest of
\* the reloaded board.
C19_MutationReloadsAndPushes ==
  [][lastEvent'.kind = "toolLoad" =>
       /\ board'.todos = remote'
       /\ \E k \in (Len(outbox) + 1)..Len(outbox') :
            /\ outbox'[k].type = "ADD_CONTEXT"
            /\ outbox'[k].text = getBoardContext(board')]_vars

\* C20: in every reachable state at most one poll timer exists, and one
\* exists only while the chat panel is open: when the panel is closed, no
\* poll timer remains.
C20_PollOnlyWhileOpen ==
  /\ Cardinality(intervals) <= 1
  /\ intervals # {} => board.chatOpen
  /\ ~board.chatOpen => (intervals = {} /\ board.chatPollInterval = NoTimer)

\* the panel was opened, closed, opened again, the second poll timer ticked,
\* and the panel has been closed again
C20_Witness ==
  /\ lastEvent.kind = "chatFab"
  /\ ~lastEvent.open
  /\ timerSeq = 2
  /\ polls # {}

\* the step is the listener's task for a message of this type from the
\* allowed origin
AllowedMessage(type) ==
  /\ lastEvent'.kind = "message"
  /\ lastEvent'.origin = AllowedOrigin
  /\ lastEvent'.type = type

\* the AUTH message that carries this token when one is held, else nothing
AuthPushed(token) ==
  IF token # Null THEN <<[type |-> "AUTH", token |-> token]>> ELSE <<>>

\* C21: the listener's task for a READY message of the allowed origin posts
\* an AUTH message with the access token held if and only if one is held,
\* then REGISTER_TOOLS with the catalog of six tools, then ADD_CONTEXT with
\* the digest of the cache, and nothing else; no AUTH message posted by any
\* task carries a null token.
C21_ReadyPushesTokenToolsContext ==
  [][/\ AllowedMessage("READY") =>
          /\ Len(outbox') = Len(outbox) + Len(AuthPushed(auth.accessToken)) + 2
          /\ SubSeq(outbox', 1, Len(outbox') - 2) = outbox \o AuthPushed(auth.accessToken)
          /\ outbox'[Len(outbox') - 1].type = "REGISTER_TOOLS"
          /\ outbox'[Len(outbox') - 1].tools = ToolNames
          /\ Cardinality(outbox'[Len(outbox') - 1].tools) = 6
          /\ outbox'[Len(outbox')].type = "ADD_CONTEXT"
          /\ outbox'[Len(outbox')].text = getBoardContext(board)
          /\ UNCHANGED <<auth, board, nreq>>
     /\ \A k \in 1..Len(outbox') :
          outbox'[k].type = "AUTH" => outbox'[k].token \in AccessTokens]_vars

\* READY was handled while a token was held and the cache held the loaded
\* tasks: the frame was sent the token, the tools and the digest
C21_Witness ==
  /\ lastEvent.kind = "message"
  /\ lastEvent.origin = AllowedOrigin
  /\ lastEvent.type = "READY"
  /\ auth.accessToken # Null
  /\ board.todos # <<>>
  /\ Len(outbox) >= 3
  /\ outbox[Len(outbox) - 2] = [type |-> "AUTH", token |-> auth.accessToken]
  /\ outbox[Len(outbox)].text.total = 2

\* C22: the listener's task for a REQUEST_TOKEN_REFRESH message of the
\* allowed origin calls refreshToken(); while the token request that call
\* makes is unanswered the task posts nothing, and the task in which the call
\* completes (the same task when no refresh token is held and no request is
\* made) posts one AUTH message with the access token held after the refresh,
\* or nothing when none is held then.
C22_RefreshThenPush ==
  [][/\ AllowedMessage("REQUEST_TOKEN_REFRESH") =>
          IF refreshTokenRt(World) = Null
            THEN /\ outbox' = outbox \o AuthPushed(auth.accessToken)
                 /\ UNCHANGED <<auth, refreshes, nreq>>
            ELSE /\ outbox' = outbox
                 /\ refreshes' = refreshes \cup {[req |-> nreq', caller |-> "message"]}
                 /\ nreq' = nreq + 1
                 /\ UNCHANGED auth
     /\ (lastEvent'.kind = "refreshToken" /\ lastEvent'.caller = "message") =>
          outbox' = outbox \o AuthPushed(auth'.accessToken)]_vars

\* a refresh asked for by the frame replaced the token of the session
\* restore, and the new token was pushed after the old one
C22_Witness ==
  /\ RefreshEnded("ok")
  /\ lastEvent.caller = "message"
  /\ Len(outbox) >= 2
  /\ outbox[Len(outbox)] = [type |-> "AUTH", token |-> auth.accessToken]
  /\ outbox[1].type = "AUTH"
  /\ outbox[1].token # auth.accessToken

\* the sort key the header of a stored content carries: the text of its
\* sort line, or Undefined when it has none
StoredSort(content) ==
  LET k == FrontmatterEnd(content)
      line == IF k = 0 THEN <<FALSE, <<>>>>
              ELSE MatchKey(SubSeq(content, Len(FrontmatterOpen) + 1, k - 1),
                            SortKeyLine, 1)
  IN TrimmedCapture(line, Undefined)

\* C23: the fragment stored after update_task has the status and the sort
\* key stored before it; the fragment stored after move_task has the
\* title, summary, priority, sort key, body and tags stored before it.
C23_ToolsKeepOtherFields ==
  calc.op = "applied" =>
    /\ calc.tool = "update_task" =>
         /\ parseContent(calc.after.content).status
              = parseContent(calc.stored.content).status
         /\ StoredSort(calc.after.content) = StoredSort(calc.stored.content)
    /\ calc.tool = "move_task" =>
         /\ calc.after.title = calc.stored.title
         /\ calc.after.summary = calc.stored.summary
         /\ parseContent(calc.after.content).priority
              = parseContent(calc.stored.content).priority
         /\ StoredSort(calc.after.content) = StoredSort(calc.stored.content)
         /\ parseContent(calc.after.content).body
              = parseContent(calc.stored.content).body
         /\ calc.after.tags = calc.stored.tags

\* the call the listener's task of this step received
CallReceived == toolCalls'[Len(toolCalls')]

\* the step is the listener's task for a get_task, update_task, move_task
\* or delete_task call whose input names an id that no cached task has
MissingTaskCall ==
  /\ AllowedMessage("TOOL_CALL")
  /\ lastEvent'.tool \in {"get_task", "update_task", "move_task", "delete_task"}
  /\ CallReceived.call.input.present
  /\ \A k \in 1..Len(board.todos) : board.todos[k].id # CallReceived.call.input.id

\* C24: a get_task, update_task, move_task or delete_task call whose id
\* matches no cached task ends in the listener's own task: it posts exactly
\* one message, the TOOL_RESPONSE of the call with the error 'Task not
\* found', issues no request, and leaves the cache, the board and the store
\* unchanged.
C24_MissingTaskIsStructuredError ==
  [][MissingTaskCall =>
       /\ outbox' = Append(outbox,
            [type |-> "TOOL_RESPONSE", requestId |-> lastEvent'.requestId,
             result |-> [error |-> "Task not found: " \o CallReceived.call.input.id]])
       /\ CallReceived.stage = "done"
       /\ Len(toolCalls') = Len(toolCalls) + 1
       /\ nreq' = nreq
       /\ loads' = loads
       /\ board' = board
       /\ remote' = remote]_vars

\* update_task named a task that an earlier delete_task had removed, while
\* the cache held the other tasks
C24_Witness ==
  /\ lastEvent.kind = "message"
  /\ lastEvent.type = "TOOL_CALL"
  /\ lastEvent.tool = "update_task"
  /\ board.todos # <<>>
  /\ FindTodo(board.todos, "A") = <<>>
  /\ toolCalls[Len(toolCalls)].stage = "done"
  /\ "error" \in DOMAIN outbox[Len(outbox)].result

\* the handleDrop call that resumes in this step
DropAnswered == CHOOSE d \in drops \ drops' : TRUE

\* C25: the step in which handleDrop resumes on a fulfilled updateTodo()
\* starts no reload and leaves the cache holding the task with a content
\* that decodes to the status, priority, sort key and body of the update,
\* so that getCardSort returns the new key for the task.
C25_SuccessPatchesCache ==
  [][(lastEvent'.kind = "dropResponse" /\ lastEvent'.ok) =>
       /\ loads' = loads
       /\ nreq' = nreq
       /\ FindTodo(board'.todos, DropAnswered.request.id) # <<>>
       /\ LET content == FindTodo(board'.todos, DropAnswered.request.id)[1].content
          IN /\ parseContent(content).status = DropAnswered.newStatus
             /\ parseContent(content).priority
                  = parseContent(DropAnswered.request.content).priority
             /\ parseContent(content).body
                  = parseContent(DropAnswered.request.content).body
             /\ ParsedSort(parseContent(content)) = DropAnswered.newSort
       /\ getCardSort(board', DropAnswered.request.id) = DropAnswered.newSort]_vars

\* the handleDrop call that this step left waiting for updateTodo()
DropIssued == CHOOSE d \in drops' \ drops : TRUE

\* C26: the task of a drop that changes status or sort key ends with the
\* card shown in the target column, and in that column only, and with the
\* update request in flight; afterwards what the columns show changes only
\* by another drop or by the reload that follows a failed update request,
\* not while the request is pending and not when it succeeds.
C26_OptimisticMoveUndoneOnlyByFailure ==
  [][/\ (lastEvent'.kind = "drop" /\ lastEvent'.calls) =>
          /\ drops' # drops
          /\ DropIssued.req = nreq'
          /\ \A c \in 1..Len(Columns) :
               (DropIssued.request.id \in SeqRange(Displayed(board')[c]))
                 <=> (c = ColumnIndex(DropIssued.newStatus))
     /\ (Displayed(board') # Displayed(board) /\ lastEvent'.kind # "drop") =>
          /\ lastEvent'.kind = "loadTodos"
          /\ lastEvent'.after \in {"init", "updateFailed"}]_vars

\* C27: when refreshSilently() resumes on a list that differs from the
\* cache, the cache becomes that list, the columns show its tasks and one
\* message is posted, an ADD_CONTEXT with the digest of the new cache; when
\* the list equals the cache or the request failed, the board with its
\* cache, columns and toast is unchanged and nothing is posted.
C27_SilentReloadOnlyOnChange ==
  [][lastEvent'.kind = "refreshSilently" =>
       IF lastEvent'.ok /\ remote # board.todos
         THEN /\ board'.todos = remote
              /\ Displayed(board') = StoreByColumn(remote)
              /\ board'.toast = board.toast
              /\ Len(outbox') = Len(outbox) + 1
              /\ SubSeq(outbox', 1, Len(outbox)) = outbox
              /\ outbox'[Len(outbox')].type = "ADD_CONTEXT"
              /\ outbox'[Len(outbox')].text = getBoardContext(board')
         ELSE /\ board' = board
              /\ outbox' = outbox]_vars

\* the first load had failed and a poll has filled the cache: the frame was
\* sent the digest of the two live tasks
C27_Witness ==
  /\ lastEvent.kind = "refreshSilently"
  /\ lastEvent.ok
  /\ lastEvent.changed
  /\ board.todos = remote
  /\ loads = {}
  /\ outbox[Len(outbox)].type = "ADD_CONTEXT"
  /\ outbox[Len(outbox)].text.total = 2

\* the number the sort line of a stored content carries
StoredSortKey(content) == CHOOSE n \in 0..9 : StoredSort(content) = <<Digit(n)>>

\* the column the claim gives a task of this parsed status: its own, or the
\* todo column when the status is not one of the three
ColumnOf(status) == IF ColumnIndex(status) # 0 THEN ColumnIndex(status) ELSE ColumnIndex(TODO)

\* C28: after renderBoard every cached task whose parsed status is not
\* deleted is shown once, in the column of its parsed status or in the todo
\* column when that status is none of the three; no deleted task is shown;
\* and the tasks of each column stand in ascending order of their stored
\* sort keys.
C28_GroupingPartitionsAndSorts ==
  calc.op = "rendered" =>
    /\ \A k \in 1..Len(calc.todos) :
         LET status == parseContent(calc.todos[k].content).status
             shown == {<<c, i>> \in (1..Len(Columns)) \X (1..Len(calc.todos)) :
                         /\ i <= Len(Displayed(calc.board)[c])
                         /\ Displayed(calc.board)[c][i] = calc.todos[k].id}
         IN IF status = DELETED
              THEN shown = {}
              ELSE /\ Cardinality(shown) = 1
                   /\ \A at \in shown : at[1] = ColumnOf(status)
    /\ \A c \in 1..Len(Columns) :
         \A i, j \in 1..Len(Displayed(calc.board)[c]) :
           i < j =>
             StoredSortKey(FindTodo(calc.todos, Displayed(calc.board)[c][i])[1].content)
               <= StoredSortKey(FindTodo(calc.todos, Displayed(calc.board)[c][j])[1].content)

\* C29: a drop of A at the end of the todo column, whose last other task B
\* is stored with key p, takes B alone as neighbour (neither the deleted
\* task nor A itself), asks for the status todo and allocates the key
\* floor((p + now) / 2).
C29_DropAtEndOfColumn ==
  (calc.op = "dropped" /\ calc.index = 1) =>
    /\ calc.out.neighbours = <<"B">>
    /\ calc.out.calls
    /\ calc.out.newStatus = TODO
    /\ calc.out.key = (calc.other + calc.now) \div 2

\* C30: a drop of A at index 0 of the todo column, whose first task B is
\* stored with key n, allocates a key strictly below n, for every n from 0
\* on.
C30_DropAtTopBelowFirstKey ==
  (calc.op = "dropped" /\ calc.index = 0) =>
    /\ calc.out.calls
    /\ calc.out.key < calc.other

\* the lifetime _setTokens hands to scheduleRefresh for a token response, in
\* seconds
Lifetime(tokens) == IF tokens.expires_in # 0 THEN tokens.expires_in ELSE 300

\* the timer the manager holds has this delay, in milliseconds
ArmedFor(ts, a, delay) ==
  \E t \in ts : t.id = a.refreshTimer /\ t.delay = delay

\* the timer the claim describes for a lifetime in seconds: 30 s before
\* expiry from 40 s on, and never under 10 s
ArmedAsClaimed(ts, a, expiresIn) ==
  /\ expiresIn >= 40 => ArmedFor(ts, a, (expiresIn - 30) * 1000)
  /\ expiresIn < 40 => ArmedFor(ts, a, 10000)
  /\ \A t \in ts : t.delay >= 10000

\* C31: scheduleRefresh(expiresIn) arms a one-shot timer whose delay is
\* (expiresIn - 30) s when expiresIn >= 40 and 10 s otherwise, never under
\* 10 s; when the timer fires it is gone, and its callback calls
\* refreshToken() once: one request to the token endpoint when a refresh
\* token is held, none otherwise.
C31_RefreshTimerDelayAndFiring ==
  [][/\ \A r \in refreshes, resp \in Responses :
          (resp.kind = "ok" /\ RefreshResponse(r, resp)) =>
             ArmedAsClaimed(timers', auth', Lifetime(resp.tokens))
     /\ \A resp \in Responses :
          (resp.kind = "ok" /\ HandleCallbackResponse(resp)) =>
             ArmedAsClaimed(timers', auth', Lifetime(resp.tokens))
     /\ \A t \in timers :
          TimerFire(t) =>
             /\ t \notin timers'
             /\ refreshes \subseteq refreshes'
             /\ Cardinality(refreshes' \ refreshes)
                  = (IF refreshTokenRt(World) # Null THEN 1 ELSE 0)
             /\ \A r \in refreshes' \ refreshes : r.caller = "timer"]_vars

\* the timer armed for a 300 s lifetime has fired with a refresh token
\* held: its refresh request is in flight and no timer is pending
C31_Witness ==
  /\ lastEvent.kind = "timer"
  /\ timers = {}
  /\ auth.refreshTimer = 1
  /\ \E r \in refreshes : r.caller = "timer"

\* the document has just been loaded from a URL without an authorization code
StartedWithoutCode == lastEvent.kind = "load" /\ ~urlCode

\* the manager of a loaded page holds no token, none is stored, no refresh
\* is in flight and init() has run to its end
LoggedOut ==
  /\ page = "app"
  /\ ~urlCode
  /\ initPc = "done"
  /\ auth.accessToken = Null
  /\ auth.refreshToken = Null
  /\ localStorage[RefreshTokenKey] = Null
  /\ refreshes = {}

\* C32: when the app starts without an authorization code, handleCallback()
\* starts no code exchange and changes neither the tokens nor the storage;
\* with a stored refresh token exactly one refresh request is made, and
\* when it succeeds the manager holds the new access token and an armed
\* refresh timer; with none stored no request is made and the manager
\* stays logged out for as long as the page lives.
C32_StartWithoutCode ==
  /\ [](StartedWithoutCode =>
          /\ initPc # "handleCallback"
          /\ auth.accessToken = Null
          /\ timers = {}
          /\ IF localStorage[RefreshTokenKey] # Null
               THEN /\ Cardinality(refreshes) = 1
                    /\ \A r \in refreshes : r.caller = "tryRestore"
                    /\ initPc = "tryRestore"
               ELSE /\ refreshes = {}
                    /\ auth = InitialAuth
                    /\ initPc = "done")
  /\ [][/\ StartedWithoutCode' => UNCHANGED <<localStorage, sessionStorage>>
        /\ \A r \in refreshes, resp \in Responses :
             (r.caller = "tryRestore" /\ resp.kind = "ok" /\ RefreshResponse(r, resp)) =>
                /\ auth'.accessToken = resp.tokens.access_token
                /\ \E t \in timers' : t.id = auth'.refreshTimer
                /\ \A q \in refreshes' : q.caller # "tryRestore"
        /\ (LoggedOut /\ page' = "app" /\ ~urlCode') =>
             (auth'.accessToken = Null /\ refreshes' = {})]_vars

\* the first page found a stored refresh token, its one refresh request has
\* succeeded: the manager is authenticated and its timer is pending
C32_Witness ==
  /\ nnav = 1
  /\ ~urlCode
  /\ RefreshEnded("ok")
  /\ lastEvent.caller = "tryRestore"
  /\ auth.accessToken \in AccessTokens
  /\ timers = {[id |-> 1, delay |-> 270000]}

\* a token response has just given the manager a new access token
TokenChanged(callers) ==
  /\ lastEvent'.resp = "ok"
  /\ \/ lastEvent'.kind = "handleCallback"
     \/ lastEvent'.kind = "refreshToken" /\ lastEvent'.caller \in callers

\* C33: in every task that gives the manager a new access token (the code
\* exchange succeeds, or a refresh started by the timer, by the frame's
\* message or by the session restore succeeds) one AUTH message carrying
\* the new token is posted to the embedded frame.
C33_TokenChangePushesAuth ==
  [][(lastEvent'.kind \in {"handleCallback", "refreshToken"}
        /\ TokenChanged({"timer", "message", "tryRestore"})) =>
       /\ auth'.accessToken \in AccessTokens
       /\ outbox' = outbox \o AuthPushed(auth'.accessToken)]_vars

\* the letters String.prototype.toLowerCase changes among those of the tags
UpperCase == {"U", "I"}

\* C34: whatever the tags given to createTodo or updateTodo (a
\* comma-separated text, an array, or none), the tags of the request body
\* hold every default tag, each tag is a non-empty string without leading
\* or trailing whitespace and without upper-case letters, and no tag occurs
\* twice.
C34_TagsNormalised ==
  calc.op = "sent" =>
    LET sent == calc.body.tags
    IN /\ \A d \in 1..Len(DEFAULT_TAGS) :
            \E i \in 1..Len(sent) : sent[i] = DEFAULT_TAGS[d]
       /\ \A i \in 1..Len(sent) :
            /\ sent[i] # <<>>
            /\ sent[i][1] \notin Whitespace
            /\ sent[i][Len(sent[i])] \notin Whitespace
            /\ \A k \in 1..Len(sent[i]) : sent[i][k] \notin UpperCase
       /\ \A i, j \in 1..Len(sent) : sent[i] = sent[j] => i = j

\* the form's text repeats a default tag, gives one tag in both cases and
\* ends with a comma: the defaults and the one tag are sent
C34_Witness ==
  /\ calc.op = "sent"
  /\ calc.tags = [type |-> "string",
                  value |-> <<"t", "o", "d", "o", ",", " ", "U", ",", "u", ",">>]
  /\ calc.body.tags = DEFAULT_TAGS \o << <<"u">> >>

\* C35: the task in which handleDrop resumes on a fulfilled updateTodo()
\* ends on the success path: it shows 'Task moved', no failure toast, and
\* starts no reload, whether or not the drag has ended by then.
C35_FulfilledDropSucceeds ==
  [][(lastEvent'.kind = "dropResponse" /\ lastEvent'.ok) =>
       /\ board'.toast = [message |-> "Task moved", type |-> "success"]
       /\ loads' = loads
       /\ nreq' = nreq]_vars

\* the column without the moved task
Others(column) == SelectSeq(column, LAMBDA id : id # "A")

\* C36: after a drop of A at index i of the todo column, a fulfilled update,
\* a reload and a render, the column shows A at index i and the other tasks
\* in the order they had, whatever the stored keys of the other tasks
\* (apart, adjacent or equal).
C36_MoveSurvivesReload ==
  calc.op = "moved" =>
    /\ Len(calc.out.reloaded) = 3
    /\ calc.out.reloaded[calc.index + 1] = "A"
    /\ Others(calc.out.reloaded) = <<"P", "Q">>

\* the columns whose list in the digest names this task
ListedIn(context, id) ==
  {c \in 1..Len(Columns) : id \in SeqRange(context.listed[c])}

\* C37: in the digest of any cache, one with a task of an unrecognized
\* status included, the total stated is the sum of the three counts stated,
\* each count is the length of its column's list, every cached task that is
\* not deleted is listed under exactly one column and no deleted one under
\* any, and each column lists the tasks the rendered board shows in it.
C37_DigestAgreesWithBoard ==
  calc.op = "digested" =>
    /\ calc.context.total
         = calc.context.counts[1] + calc.context.counts[2] + calc.context.counts[3]
    /\ \A c \in 1..Len(Columns) :
         /\ calc.context.counts[c] = Len(calc.context.listed[c])
         /\ SeqRange(calc.context.listed[c]) = SeqRange(Displayed(calc.board)[c])
    /\ \A k \in 1..Len(calc.todos) :
         Cardinality(ListedIn(calc.context, calc.todos[k].id))
           = (IF parseContent(calc.todos[k].content).status = DELETED THEN 0 ELSE 1)

====
